---------------------------- MODULE Spec2Model ----------------------------
(***************************************************************************)
(* A model of the fragbag BOW database (package bowdb): the record-stream  *)
(* codec (DB.write / DB.read), the pooled full-table load (DB.ReadAll),    *)
(* the ingestion pipeline (Create / Add / Close, archive variant of        *)
(* bowdb/db.go and worker-pool variant CreateDB) and the bounded ranked    *)
(* search (DB.Search).                                                     *)
(*                                                                         *)
(* Bytes are integers 0..255 and byte strings are sequences of them.       *)
(* float32 values are the integers they denote exactly; their IEEE-754     *)
(* bit patterns are computed byte by byte (Float32bits).  Distances, which *)
(* the program holds as float64, are fixed-point numbers with Scale units  *)
(* to one.                                                                 *)
(***************************************************************************)
EXTENDS Integers, Sequences, FiniteSets, TLC

(***************************************************************************)
(* Bounds of the model.                                                    *)
(***************************************************************************)
\* Lib.Size(): the number of fragments of the library, the length of a Bow.
LibSize == 2
\* Records written in one codec session.
MaxRecords == 2
\* The bow slab holds libSize*BowSlabVecs floats (10000 vectors in the source).
BowSlabVecs == 3
\* The data slab holds DataSlabBytes bytes (5 MiB in the source).
DataSlabBytes == 5

\* Records of the database of a search session.
MaxEntries == 3
\* Largest value of opts.Limit tried.
MaxLimit == 2
\* Calls each goroutine makes on a shared read-mode handle.
MaxCalls == 2
\* Records of the archive the goroutines of a load session share.
MaxLoad == 2
\* Fixed-point units to 1.0 of a distance.
Scale == 1000

\* const ( SortByEuclid = iota; SortByCosine ), const ( OrderAsc = iota; OrderDesc )
SortByEuclid == 0
SortByCosine == 1
OrderAsc == 0
OrderDesc == 1
\* math.MaxFloat64, larger than every distance of the model
MaxFloat64 == 2147483647

\* The float32 values a frequency takes in the codec sessions.
FloatVals == {-1, 0, 2}

\* All vectors of length LibSize over a set of values.
VectorsOver(vals) == [1..LibSize -> vals]

\* Identifier and payload of the records of the codec sessions ("a" with no
\* payload, "bc" with a two-byte payload).
RecordMeta == { [Id |-> <<97>>, Data |-> <<>>], [Id |-> <<98, 99>>, Data |-> <<7, 8>>] }

\* bow.Bowed values: Id, Data and a Bow of length Lib.Size().
CodecRecords ==
    { [Id |-> m.Id, Data |-> m.Data, Bow |-> v] : m \in RecordMeta, v \in VectorsOver(FloatVals) }

Threads == {"t1", "t2"}

\* Goroutines that call Add, and the number each has in the Ids of its records.
Adders == {"a1", "a2"}
AdderNo(a) == IF a = "a1" THEN 1 ELSE 2
\* Add calls of each of them.
MaxAdds == 2
\* Records of a session whose write to the file fails.
MaxFaults == 1
\* Length of the fragments offered to a library under construction.
MaxFragSize == 2
\* Length of the atom list or sequence a bag-of-words is computed for.
MaxAtoms == 3
\* max(1, runtime.GOMAXPROCS(0)): compute workers of the pool variant.
NumWorkers == 2
Workers == 1..NumWorkers

NoEntry == [Id |-> <<>>, Data |-> <<>>, Bow |-> <<>>]

VARIABLES
    variant,     \* "archive": bowdb/db.go (Create), "pool": the worker-pool CreateDB
    writingClosed,   \* close(db.writing) has run (pool)
    entryChanClosed, \* close(db.entryChan) has run
    wg,          \* counter of db.wg (pool)
    apc,         \* position of each goroutine that calls Add
    aItem,       \* the value the Add call of each such goroutine sends
    nadds,       \* Add calls each such goroutine has made
    wpc,         \* position of each compute worker (pool)
    wItem,       \* the Entry a worker sends on entryChan
    wrpc,        \* position of the writer goroutine
    wrItem,      \* the entry the writer received
    cpc,         \* position of the goroutine that calls Close
    file,        \* contents of db.file, the bow.db file (pool)
    returned,    \* history: Ids whose Add call has returned
    returnedBeforeClose, \* history: returned, when Close was called
    mode,        \* "write": handle made by Create, "read": handle made by Open
    saveBuf,     \* db.saveBuf: the record stream assembled in memory
    tar,         \* members written to the archive through db.tw, in order
    written,     \* history: the records db.write was called with, in order
    fileBuf,     \* db.fileBuf: the unread rest of the record-stream member
    entries,     \* db.entries (meaningful when entriesSet)
    entriesSet,  \* db.entries != nil
    bowPool,     \* every bow slab allocated so far; the last one is db.bowPool
    bowLast,     \* db.bowLast
    dataPool,    \* every data slab allocated so far; the last one is db.dataPool
    dataLast,    \* db.dataLast
    readAllLock, \* holder of db.readAllLock, or "free"
    decodes,     \* history: how many goroutines started decoding the stream
    raced,       \* history: a goroutine reached Lock() while another held the lock
    crashed,     \* a goroutine panicked: the process is gone
    pc,          \* position of each calling goroutine
    call,        \* the exported method each calling goroutine is in
    ncalls,      \* exported calls each goroutine has made
    ret,         \* what the last ReadAll call of each goroutine returned
    sOpts,       \* opts of the Search call of each goroutine
    sQuery,      \* query.Bow of the Search call of each goroutine
    scan,        \* the db.entries value the range loop of Search iterates
    scanIdx,     \* entries of scan already visited
    tree,        \* the bst of the Search call
    results,     \* the list the Search call returned
    pathExists,  \* os.Stat(fpath) finds something at the path of the database
    ctorRet,     \* what Create or Open returned: "none" (not called yet), "nil" or an error
    writeBuf,    \* db.writeBuf between two calls of db.write (pool)
    wrErrs,      \* history: for each record of written, whether db.write returned an error
    Fragments,   \* lib.Fragments of a library under construction: FragNumber and length of each
    FragSize,    \* lib.FragSize
    addRet,      \* what the last lib.add returned: "none" (not called yet), "nil" or "error"
    bowRet       \* the last StructureBow or SequenceBow call: its input and what it returned

pipeVars   == << variant, writingClosed, entryChanClosed, wg, apc, aItem, nadds, wpc, wItem,
                 wrpc, wrItem, cpc, file, returned, returnedBeforeClose >>
codecVars  == << mode, saveBuf, tar, written >>
callVars   == << pc, call, ncalls, ret >>
poolVars   == << bowPool, bowLast, dataPool, dataLast >>
loadVars   == << fileBuf, entries, entriesSet, bowPool, bowLast, dataPool, dataLast,
                 readAllLock, decodes, raced >>
searchVars == << sOpts, sQuery, scan, scanIdx, tree, results >>
diskVars   == << pathExists, ctorRet >>
ioVars     == << writeBuf, wrErrs >>
libVars    == << Fragments, FragSize, addRet, bowRet >>

vars == << pipeVars, codecVars, loadVars, crashed, pc, call, ncalls, ret, searchVars, diskVars, ioVars,
          libVars >>

(***************************************************************************)
(* encoding/binary, big endian.                                            *)
(***************************************************************************)
RECURSIVE Pow2(_)
Pow2(k) == IF k = 0 THEN 1 ELSE 2 * Pow2(k - 1)

\* floor(log2(n)) for n >= 1
RECURSIVE Log2(_)
Log2(n) == IF n < 2 THEN 0 ELSE 1 + Log2(n \div 2)

\* binw(w, uint32(n)): four bytes, most significant first
Uint32Bytes(n) ==
    << (n \div 16777216) % 256, (n \div 65536) % 256, (n \div 256) % 256, n % 256 >>

\* binw(w, uint16(i)): the conversion keeps the low 16 bits of i
Uint16Bytes(i) == << (i \div 256) % 256, i % 256 >>

\* binary.BigEndian.Uint32 of a length prefix
Uint32Of(b) == ((b[1] * 256 + b[2]) * 256 + b[3]) * 256 + b[4]

\* binary.BigEndian.Uint16
Uint16Of(b) == b[1] * 256 + b[2]

\* binw(w, f) for a float32 f: sign, biased exponent and 23-bit mantissa
Float32bits(f) ==
    IF f = 0 THEN <<0, 0, 0, 0>>
    ELSE LET s == IF f < 0 THEN 1 ELSE 0
             a == IF f < 0 THEN 0 - f ELSE f
             e == Log2(a)
             E == e + 127
             m == (a - Pow2(e)) * Pow2(23 - e)
         IN  << s * 128 + E \div 2, (E % 2) * 128 + m \div 65536, (m \div 256) % 256, m % 256 >>

\* math.Float32frombits(binary.BigEndian.Uint32(b))
Float32frombits(b) ==
    LET s == b[1] \div 128
        E == (b[1] % 128) * 2 + b[2] \div 128
        m == (b[2] % 128) * 65536 + b[3] * 256 + b[4]
    IN  IF E = 0 /\ m = 0 THEN 0
        ELSE LET e   == E - 127
                 mag == (Pow2(23) + m) \div Pow2(23 - e)
             IN  IF s = 1 THEN 0 - mag ELSE mag

(***************************************************************************)
(* DB.write and DB.writeItem (bowdb/db.go).                                *)
(***************************************************************************)
\* an item written without its length
writeItem_NoLength(save, wb) == save \o wb

\* writeItem: the length of writeBuf as uint32, then its bytes, appended to saveBuf
writeItem(save, wb) == save \o Uint32Bytes(Len(wb)) \o wb

\* the test of DB.write that decides whether entry i is written
IsWritten(f) == f > 0

\* the loop of DB.write over i = from .. libSize-1: [index, value] pairs
RECURSIVE SparsePairs(_, _)
SparsePairs(freqs, from) ==
    IF from >= LibSize THEN <<>>
    ELSE (IF IsWritten(freqs[from + 1])
             THEN Uint16Bytes(from) \o Float32bits(freqs[from + 1])
             ELSE <<>>)
         \o SparsePairs(freqs, from + 1)

\* DB.write: three items, identifier, payload, sparse vector
write(save, entry) ==
    writeItem(writeItem(writeItem(save, entry.Id), entry.Data), SparsePairs(entry.Bow, 0))

(***************************************************************************)
(* DB.readNBytes, DB.readItem, DB.newBow, DB.newData, DB.read.             *)
(***************************************************************************)
Drop(s, n) == SubSeq(s, n + 1, Len(s))
Take(s, n) == SubSeq(s, 1, n)

\* readNBytes(n): fileBuf.Read is called until n bytes are in entryBuf; at the
\* end of the stream Read returns io.EOF, which readNBytes returns as it is.
readNBytes(buf, n) ==
    IF Len(buf) >= n
        THEN [err |-> "nil", item |-> Take(buf, n), rest |-> Drop(buf, n)]
        ELSE [err |-> "EOF", item |-> buf, rest |-> <<>>]

\* readItem: a 4-byte length, then that many bytes
readItem(buf) ==
    LET hd == readNBytes(buf, 4)
    IN  IF hd.err # "nil" THEN hd
        ELSE readNBytes(hd.rest, Uint32Of(hd.item))

\* cap(db.bowPool), cap(db.dataPool): a nil pool has capacity 0
PoolCap(pool) == IF pool = <<>> THEN 0 ELSE Len(pool[Len(pool)])

\* the slab test of newBow and newData
NeedsSlab(last, size, cap) == last + size >= cap

\* a view that is not cut at libSize: the rest of the slab
newBow_RestOfSlab(pool, last) ==
    LET fresh == NeedsSlab(last, LibSize, PoolCap(pool))
        pool2 == IF fresh THEN Append(pool, [i \in 1..(LibSize * BowSlabVecs) |-> 0]) ELSE pool
        lo    == IF fresh THEN 0 ELSE last
    IN  [pool |-> pool2, last |-> lo + LibSize,
         view |-> [slab |-> Len(pool2), lo |-> lo, hi |-> PoolCap(pool2)]]

\* newBow: a view of libSize floats of the current slab
newBow(pool, last) ==
    LET fresh == NeedsSlab(last, LibSize, PoolCap(pool))
        pool2 == IF fresh THEN Append(pool, [i \in 1..(LibSize * BowSlabVecs) |-> 0]) ELSE pool
        lo    == IF fresh THEN 0 ELSE last
    IN  [pool |-> pool2, last |-> lo + LibSize,
         view |-> [slab |-> Len(pool2), lo |-> lo, hi |-> lo + LibSize]]

\* a newData that starts again at the front of the slab it has
newData_ReuseSlab(pool, last, size) ==
    IF size = 0
        THEN [pool |-> pool, last |-> last, view |-> [slab |-> 0, lo |-> 0, hi |-> 0], panic |-> FALSE]
        ELSE LET fresh == NeedsSlab(last, size, PoolCap(pool))
                 pool2 == IF pool = <<>> THEN << [i \in 1..DataSlabBytes |-> 0] >> ELSE pool
                 lo    == IF fresh THEN 0 ELSE last
             IN  IF lo + size > DataSlabBytes
                     THEN [pool |-> pool2, last |-> lo, view |-> [slab |-> 0, lo |-> 0, hi |-> 0],
                           panic |-> TRUE]
                     ELSE [pool |-> pool2, last |-> lo + size,
                           view |-> [slab |-> Len(pool2), lo |-> lo, hi |-> lo + size],
                           panic |-> FALSE]

\* newData: nil for size 0, else a view of size bytes of the current slab;
\* slicing past the capacity of the slab panics
newData(pool, last, size) ==
    IF size = 0
        THEN [pool |-> pool, last |-> last, view |-> [slab |-> 0, lo |-> 0, hi |-> 0], panic |-> FALSE]
        ELSE LET fresh == NeedsSlab(last, size, PoolCap(pool))
                 pool2 == IF fresh THEN Append(pool, [i \in 1..DataSlabBytes |-> 0]) ELSE pool
                 lo    == IF fresh THEN 0 ELSE last
             IN  IF lo + size > DataSlabBytes
                     THEN [pool |-> pool2, last |-> lo, view |-> [slab |-> 0, lo |-> 0, hi |-> 0],
                           panic |-> TRUE]
                     ELSE [pool |-> pool2, last |-> lo + size,
                           view |-> [slab |-> Len(pool2), lo |-> lo, hi |-> lo + size],
                           panic |-> FALSE]

\* copy(dst, src) into the view v of the pool
CopyInto(pool, v, src) ==
    IF v.slab = 0 THEN pool
    ELSE [pool EXCEPT ![v.slab] =
            [i \in 1..Len(pool[v.slab]) |->
                IF i > v.lo /\ i <= v.hi THEN src[i - v.lo] ELSE pool[v.slab][i]]]

\* the decoding loop of DB.read: freqs[fragi] = value for each 6-byte pair
RECURSIVE StorePairs(_, _, _)
StorePairs(pool, v, item) ==
    IF item = <<>> THEN pool
    ELSE LET fragi == Uint16Of(SubSeq(item, 1, 2))
             f     == Float32frombits(SubSeq(item, 3, 6))
         IN  StorePairs([pool EXCEPT ![v.slab][v.lo + fragi + 1] = f], v, Drop(item, 6))

\* every pair of the item is whole and its index is inside the vector
RECURSIVE PairsInRange(_)
PairsInRange(item) ==
    \/ item = <<>>
    \/ /\ Len(item) >= 6
       /\ Uint16Of(SubSeq(item, 1, 2)) < LibSize
       /\ PairsInRange(Drop(item, 6))

\* the contents of a view
ViewOf(pool, v) == IF v.slab = 0 THEN <<>> ELSE SubSeq(pool[v.slab], v.lo + 1, v.hi)

\* DB.read: one entry from the stream.  err is "nil", "EOF" or "panic".
read(buf, bpool, blast, dpool, dlast) ==
    LET same == [err |-> "EOF", rest |-> <<>>, bowPool |-> bpool, bowLast |-> blast,
                 dataPool |-> dpool, dataLast |-> dlast,
                 entry |-> [Id |-> <<>>, Data |-> [slab |-> 0, lo |-> 0, hi |-> 0],
                            Bow |-> [slab |-> 0, lo |-> 0, hi |-> 0]]]
        i1 == readItem(buf)
    IN  IF i1.err # "nil" THEN same
        ELSE
        LET i2 == readItem(i1.rest)
        IN  IF i2.err # "nil" THEN same
            ELSE
            LET d  == newData(dpool, dlast, Len(i2.item))
                dp == CopyInto(d.pool, d.view, i2.item)
            IN  IF d.panic THEN [same EXCEPT !.err = "panic"]
                ELSE
                LET i3 == readItem(i2.rest)
                IN  IF i3.err # "nil"
                        THEN [same EXCEPT !.dataPool = dp, !.dataLast = d.last]
                    ELSE
                    LET b == newBow(bpool, blast)
                    IN  IF ~PairsInRange(i3.item)
                            THEN [same EXCEPT !.err = "panic", !.rest = i3.rest]
                        ELSE [err |-> "nil", rest |-> i3.rest,
                              bowPool |-> StorePairs(b.pool, b.view, i3.item),
                              bowLast |-> b.last,
                              dataPool |-> dp, dataLast |-> d.last,
                              entry |-> [Id |-> i1.item, Data |-> d.view, Bow |-> b.view]]

\* the bow.Bowed value an entry of db.entries denotes: its views read through
Deref(e) ==
    [Id |-> e.Id, Data |-> ViewOf(dataPool, e.Data), Bow |-> ViewOf(bowPool, e.Bow)]

DerefAll(es) == [i \in 1..Len(es) |-> Deref(es[i])]

(***************************************************************************)
(* DB.ReadAll (bowdb/db.go), one goroutine t at a time.                    *)
(***************************************************************************)
NoView  == [slab |-> 0, lo |-> 0, hi |-> 0]
NoRet   == [err |-> "none", list |-> <<>>]
NoBow   == [fn |-> "none", n |-> 0, best |-> <<>>, err |-> "none", Freqs |-> <<>>]
NoOpts  == [Limit |-> 0, Min |-> 0, Max |-> 0, SortBy |-> 0, Order |-> 0]

\* a Lock() that excludes nobody
CanLock_NoMutex == TRUE

\* db.readAllLock.Lock() can proceed
CanLock == readAllLock = "free"

\* where a goroutine continues when the ReadAll it called returns
AfterReadAll(t) == IF call[t] = "Search" THEN "range" ELSE "idle"

\* a mode test that lets every handle through
NilLock_Never == FALSE

\* db.readAllLock == nil: the handle was made with Create
NilLock == mode = "write"

\* the call of ReadAll, up to db.readAllLock.Lock(): panic on a handle made
\* with Create
ReadAllCall(t) ==
    /\ ~crashed /\ mode # "none"
    /\ pc[t] = "idle" /\ ncalls[t] < MaxCalls
    /\ call' = [call EXCEPT ![t] = "ReadAll"]
    /\ ncalls' = [ncalls EXCEPT ![t] = @ + 1]
    /\ ret' = [ret EXCEPT ![t] = NoRet]
    /\ IF NilLock
          THEN /\ pc' = [pc EXCEPT ![t] = "panic"]
               /\ crashed' = TRUE
               /\ UNCHANGED raced
          ELSE /\ pc' = [pc EXCEPT ![t] = "lock"]
               /\ raced' = (raced \/ readAllLock # "free")
               /\ UNCHANGED crashed
    /\ UNCHANGED << pipeVars, codecVars, fileBuf, entries, entriesSet, poolVars, readAllLock, decodes,
                    searchVars >>
    /\ UNCHANGED << diskVars, ioVars, libVars >>

\* db.readAllLock.Lock()
ReadAllLock(t) ==
    /\ ~crashed
    /\ pc[t] = "lock"
    /\ CanLock
    /\ readAllLock' = t
    /\ pc' = [pc EXCEPT ![t] = "check"]
    /\ UNCHANGED << pipeVars, codecVars, fileBuf, entries, entriesSet, poolVars, decodes, raced,
                    crashed, call, ncalls, ret, searchVars >>
    /\ UNCHANGED << diskVars, ioVars, libVars >>

\* a memo test that never finds the cache
AlreadyLoaded_Never == FALSE

\* db.entries != nil: the table was loaded by an earlier call
AlreadyLoaded == entriesSet

\* if db.entries != nil { return db.entries, nil }; db.entries = make(...)
ReadAllCheck(t) ==
    /\ ~crashed
    /\ pc[t] = "check"
    /\ IF AlreadyLoaded
          THEN /\ ret' = [ret EXCEPT ![t] = [err |-> "nil", list |-> entries]]
               /\ readAllLock' = "free"
               /\ pc' = [pc EXCEPT ![t] = AfterReadAll(t)]
               /\ UNCHANGED << entries, entriesSet, decodes >>
          ELSE /\ entriesSet' = TRUE
               /\ entries' = <<>>
               /\ decodes' = decodes + 1
               /\ pc' = [pc EXCEPT ![t] = "loop"]
               /\ UNCHANGED << ret, readAllLock >>
    /\ UNCHANGED << pipeVars, codecVars, fileBuf, poolVars, raced, crashed, call, ncalls, searchVars >>
    /\ UNCHANGED << diskVars, ioVars, libVars >>

\* one turn of the loop of ReadAll: db.read(), then break, return or append.
\* When the archive file ends before the bytes the header of the member
\* declares, the Read that meets the end returns io.ErrUnexpectedEOF, not
\* io.EOF: readNBytes wraps it and ReadAll returns nil and the error.
ReadAllRead(t) ==
    /\ ~crashed
    /\ pc[t] = "loop"
    /\ LET r == read(fileBuf, bowPool, bowLast, dataPool, dataLast)
       IN  /\ fileBuf' = r.rest
           /\ bowPool' = r.bowPool
           /\ bowLast' = r.bowLast
           /\ dataPool' = r.dataPool
           /\ dataLast' = r.dataLast
           /\ IF r.err = "nil"
                 THEN /\ entries' = Append(entries, r.entry)
                      /\ UNCHANGED << ret, readAllLock, pc, crashed >>
                 ELSE IF r.err = "EOF" /\ Len(tar) >= 3 /\ Len(tar[3].body) < tar[3].size
                 THEN /\ ret' = [ret EXCEPT ![t] = [err |-> "error", list |-> <<>>]]
                      /\ readAllLock' = "free"
                      /\ pc' = [pc EXCEPT ![t] = AfterReadAll(t)]
                      /\ UNCHANGED << entries, crashed >>
                 ELSE IF r.err = "EOF"
                 THEN /\ ret' = [ret EXCEPT ![t] = [err |-> "nil", list |-> entries]]
                      /\ readAllLock' = "free"
                      /\ pc' = [pc EXCEPT ![t] = AfterReadAll(t)]
                      /\ UNCHANGED << entries, crashed >>
                 ELSE /\ crashed' = TRUE
                      /\ pc' = [pc EXCEPT ![t] = "panic"]
                      /\ UNCHANGED << entries, ret, readAllLock >>
    /\ UNCHANGED << pipeVars, codecVars, entriesSet, decodes, raced, call, ncalls, searchVars >>
    /\ UNCHANGED << diskVars, ioVars, libVars >>

(***************************************************************************)
(* A codec session: records are written by DB.write into saveBuf, Close    *)
(* commits saveBuf as the record-stream member of the archive, Open puts   *)
(* fileBuf over that member, and ReadAll decodes it.                       *)
(***************************************************************************)
\* a member of the archive: the Size of its header and the bytes written after it
LibMember == [name |-> "frag-lib.json", size |-> 1, body |-> <<LibSize>>]
DirMember == [name |-> "dir", size |-> 0, body |-> <<>>]

\* hdr := db.newHdr(fileBowDB, db.saveBuf.Len()), then db.tw.Write(db.saveBuf.Bytes())
BowDBMember_NoSize(buf) == [name |-> "bow.db", size |-> 0, body |-> buf]

BowDBMember(buf) == [name |-> "bow.db", size |-> Len(buf), body |-> buf]

\* a handle that Create or Open has returned: the path exists
InitDisk == pathExists = TRUE /\ ctorRet = "nil"

\* the writer's call db.write(entry)
CodecWrite(e) ==
    /\ ~crashed /\ mode = "write"
    /\ Len(written) < MaxRecords
    /\ saveBuf' = write(saveBuf, e)
    /\ written' = Append(written, e)
    /\ UNCHANGED << pipeVars, mode, tar, loadVars, crashed, pc, call, ncalls, ret, searchVars >>
    /\ UNCHANGED << diskVars, ioVars, libVars >>

\* Close of the write-mode handle, then Open of the archive it made
CodecReopen ==
    /\ ~crashed /\ mode = "write"
    /\ tar' = Append(tar, BowDBMember(saveBuf))
    /\ mode' = "read"
    /\ fileBuf' = saveBuf
    /\ UNCHANGED << pipeVars, saveBuf, written, entries, entriesSet, poolVars, readAllLock, decodes,
                    raced, crashed, pc, call, ncalls, ret, searchVars >>
    /\ UNCHANGED << diskVars, ioVars, libVars >>

\* the pipeline state of a handle that has no channels and no goroutines
NoPipe ==
    /\ writingClosed = FALSE /\ entryChanClosed = FALSE /\ wg = 0
    /\ apc = [a \in Adders |-> "idle"]
    /\ aItem = [a \in Adders |-> NoEntry]
    /\ nadds = [a \in Adders |-> 0]
    /\ wpc = [w \in Workers |-> "none"]
    /\ wItem = [w \in Workers |-> NoEntry]
    /\ wrpc = "none" /\ wrItem = NoEntry
    /\ cpc = "idle"
    /\ returned = {} /\ returnedBeforeClose = {}

\* the pipeline state of a handle that no session of the model writes through
InitNoPipe == variant = "archive" /\ file = <<>> /\ NoPipe

InitCalls ==
    /\ crashed = FALSE
    /\ writeBuf = <<>> /\ wrErrs = <<>>
    /\ Fragments = <<>> /\ FragSize = 0 /\ addRet = "none" /\ bowRet = NoBow
    /\ pc = [t \in Threads |-> "idle"]
    /\ call = [t \in Threads |-> "none"]
    /\ ncalls = [t \in Threads |-> 0]
    /\ ret = [t \in Threads |-> NoRet]
    /\ sOpts = [t \in Threads |-> NoOpts]
    /\ sQuery = [t \in Threads |-> <<>>]
    /\ scan = [t \in Threads |-> <<>>]
    /\ scanIdx = [t \in Threads |-> 0]
    /\ tree = [t \in Threads |-> <<>>]
    /\ results = [t \in Threads |-> <<>>]

InitHandle ==
    /\ entries = <<>> /\ entriesSet = FALSE
    /\ bowPool = <<>> /\ bowLast = 0 /\ dataPool = <<>> /\ dataLast = 0
    /\ readAllLock = "free" /\ decodes = 0 /\ raced = FALSE
    /\ InitCalls

InitCodec ==
    /\ InitNoPipe
    /\ mode = "write" /\ saveBuf = <<>> /\ written = <<>>
    /\ tar = << DirMember, LibMember >>
    /\ fileBuf = <<>>
    /\ InitHandle
    /\ InitDisk

NextCodec ==
    \/ \E e \in CodecRecords : CodecWrite(e)
    \/ CodecReopen
    \/ ReadAllCall("t1")
    \/ ReadAllLock("t1")
    \/ ReadAllCheck("t1")
    \/ ReadAllRead("t1")

SpecCodec == InitCodec /\ [][NextCodec]_vars

(***************************************************************************)
(* Bow.Cosine and Bow.Euclid (structure.go), in fixed point.               *)
(***************************************************************************)
RECURSIVE IsqrtIn(_, _, _)
IsqrtIn(n, lo, hi) ==
    IF lo >= hi THEN lo
    ELSE LET mid == (lo + hi + 1) \div 2
         IN  IF mid * mid <= n THEN IsqrtIn(n, mid, hi) ELSE IsqrtIn(n, lo, mid - 1)

\* math.Sqrt, rounded down to a whole number
Isqrt(n) == IsqrtIn(n, 0, IF n < 46340 THEN n ELSE 46340)

RECURSIVE SumProd(_, _, _)
SumProd(f1, f2, i) ==
    IF i > Len(f1) THEN 0 ELSE f1[i] * f2[i] + SumProd(f1, f2, i + 1)

RECURSIVE SumSqDiff(_, _, _)
SumSqDiff(f1, f2, i) ==
    IF i > Len(f1) THEN 0
    ELSE (f2[i] - f1[i]) * (f2[i] - f1[i]) + SumSqDiff(f1, f2, i + 1)

\* Bow.Euclid: the square root of the sum of the squared differences
Euclid(b, b2) == Isqrt(SumSqDiff(b, b2, 1) * Scale * Scale)

\* a cosine distance that takes the quotient 0/0 as 1
Cosine_QuotientOne(b, b2) ==
    LET dot  == SumProd(b, b2, 1)
        mag1 == SumProd(b, b, 1)
        mag2 == SumProd(b2, b2, 1)
    IN  IF mag1 * mag2 = 0 THEN 0
        ELSE Scale - (dot * Scale * Scale) \div Isqrt(mag1 * mag2 * Scale * Scale)

\* Bow.Cosine: 1 - dot/sqrt(mag1*mag2); the quotient 0/0 is NaN and gives 1.0
Cosine(b, b2) ==
    LET dot  == SumProd(b, b2, 1)
        mag1 == SumProd(b, b, 1)
        mag2 == SumProd(b2, b2, 1)
    IN  IF mag1 * mag2 = 0 THEN Scale
        ELSE Scale - (dot * Scale * Scale) \div Isqrt(mag1 * mag2 * Scale * Scale)

(***************************************************************************)
(* The bst of Search: an ordered multiset of nodes {Bowed, distance} with  *)
(* min and max pointers and a size counter.  A tree is held as the         *)
(* sequence of its nodes in order.                                         *)
(***************************************************************************)
\* tree.size
bstSize(tr) == Len(tr)

\* tree.insert(entry, dist): after the nodes that are not farther
bstInsert(tr, entry, dist) ==
    LET k == Cardinality({i \in 1..Len(tr) : tr[i].distance <= dist})
    IN  Take(tr, k) \o << [Bowed |-> entry, distance |-> dist] >> \o Drop(tr, k)

\* tree.max, tree.min exist (are not nil)
bstHasNodes(tr) == Len(tr) > 0
\* tree.max.distance, tree.min.distance
bstMaxDistance(tr) == tr[Len(tr)].distance
bstMinDistance(tr) == tr[1].distance

\* tree.deleteMax(), tree.deleteMin()
bstDeleteMax(tr) == Take(tr, Len(tr) - 1)
bstDeleteMin(tr) == Drop(tr, 1)

\* tree.root.inorder, tree.root.inorderReverse: the nodes as visited
bstInorder(tr) == tr
bstInorderReverse(tr) == [i \in 1..Len(tr) |-> tr[Len(tr) + 1 - i]]

(***************************************************************************)
(* DB.Search (bowdb/search.go), one goroutine t at a time.                 *)
(***************************************************************************)
\* the switch on opts.SortBy: the distance between the query and the entry
KnownSortBy(opts) == opts.SortBy \in {SortByCosine, SortByEuclid}
Distance(opts, q, b) == IF opts.SortBy = SortByCosine THEN Cosine(q, b) ELSE Euclid(q, b)

\* a window test that also drops the distances equal to a bound
OutsideWindow_Exclusive(opts, dist) == dist >= opts.Max \/ dist <= opts.Min

\* if dist > opts.Max || dist < opts.Min { continue }
OutsideWindow(opts, dist) == dist > opts.Max \/ dist < opts.Min

\* if tree.size == opts.Limit: the test reads the distance of the worst node
AtLimit(opts, tr) == bstSize(tr) = opts.Limit

\* a test that lets a candidate as far as the worst hit through
NotBetter_Strict(opts, tr, dist) ==
    \/ opts.Order = OrderAsc /\ dist > bstMaxDistance(tr)
    \/ opts.Order = OrderDesc /\ dist < bstMinDistance(tr)

\* the candidate is not better than the worst hit
NotBetter(opts, tr, dist) ==
    \/ opts.Order = OrderAsc /\ dist >= bstMaxDistance(tr)
    \/ opts.Order = OrderDesc /\ dist <= bstMinDistance(tr)

\* an eviction test that is one node late
MustEvict_Late(opts, tr) == opts.Limit >= 0 /\ bstSize(tr) = opts.Limit + 2

\* an eviction test that forgets that a negative Limit means no limit
MustEvict_AnyLimit(opts, tr) == bstSize(tr) > opts.Limit

\* if opts.Limit >= 0 && tree.size == opts.Limit+1
MustEvict(opts, tr) == opts.Limit >= 0 /\ bstSize(tr) = opts.Limit + 1

\* an eviction that deletes the best hit instead of the worst
EvictWorst_Swapped(opts, tr) ==
    IF opts.Order = OrderAsc THEN bstDeleteMin(tr) ELSE bstDeleteMax(tr)

\* deleteMax for OrderAsc, deleteMin otherwise
EvictWorst(opts, tr) == IF opts.Order = OrderAsc THEN bstDeleteMax(tr) ELSE bstDeleteMin(tr)

\* an emission that ignores opts.Order
EmitOrder_AlwaysInorder(opts, tr) == bstInorder(tr)

\* if opts.Order == OrderAsc { tree.root.inorder } else { tree.root.inorderReverse }
EmitOrder(opts, tr) ==
    IF opts.Order = OrderAsc THEN bstInorder(tr) ELSE bstInorderReverse(tr)

\* newSearchResult(query, n.Bowed)
newSearchResult(q, e) ==
    [Bowed |-> e, Cosine |-> Cosine(q, ViewOf(bowPool, e.Bow)),
     Euclid |-> Euclid(q, ViewOf(bowPool, e.Bow))]

\* a call of Search whose tree is a field of the handle, made anew by every call
SearchCall_SharedTree(t, opts, q) ==
    /\ ~crashed /\ mode # "none"
    /\ pc[t] = "idle" /\ ncalls[t] < MaxCalls
    /\ pc' = [pc EXCEPT ![t] = "nilcheck"]
    /\ call' = [call EXCEPT ![t] = "Search"]
    /\ ncalls' = [ncalls EXCEPT ![t] = @ + 1]
    /\ sOpts' = [sOpts EXCEPT ![t] = opts]
    /\ sQuery' = [sQuery EXCEPT ![t] = q]
    /\ tree' = [u \in DOMAIN tree |-> <<>>]
    /\ scan' = [scan EXCEPT ![t] = <<>>]
    /\ scanIdx' = [scanIdx EXCEPT ![t] = 0]
    /\ results' = [results EXCEPT ![t] = <<>>]
    /\ UNCHANGED << pipeVars, codecVars, loadVars, crashed, ret >>
    /\ UNCHANGED << diskVars, ioVars, libVars >>

\* the call of Search: tree := new(bst)
SearchCall(t, opts, q) ==
    /\ ~crashed /\ mode # "none"
    /\ pc[t] = "idle" /\ ncalls[t] < MaxCalls
    /\ pc' = [pc EXCEPT ![t] = "nilcheck"]
    /\ call' = [call EXCEPT ![t] = "Search"]
    /\ ncalls' = [ncalls EXCEPT ![t] = @ + 1]
    /\ sOpts' = [sOpts EXCEPT ![t] = opts]
    /\ sQuery' = [sQuery EXCEPT ![t] = q]
    /\ tree' = [tree EXCEPT ![t] = <<>>]
    /\ scan' = [scan EXCEPT ![t] = <<>>]
    /\ scanIdx' = [scanIdx EXCEPT ![t] = 0]
    /\ results' = [results EXCEPT ![t] = <<>>]
    /\ UNCHANGED << pipeVars, codecVars, loadVars, crashed, ret >>
    /\ UNCHANGED << diskVars, ioVars, libVars >>

\* if db.entries == nil { db.ReadAll() }: the read of db.entries takes no
\* lock; the ReadAll it calls panics on a handle made with Create
SearchNilCheck(t) ==
    /\ ~crashed
    /\ pc[t] = "nilcheck"
    /\ pc' = [pc EXCEPT ![t] = IF entriesSet THEN "range"
                               ELSE IF NilLock THEN "panic" ELSE "lock"]
    /\ crashed' = (~entriesSet /\ NilLock)
    /\ raced' = (raced \/ (~entriesSet /\ readAllLock # "free"))
    /\ UNCHANGED << pipeVars, codecVars, fileBuf, entries, entriesSet, poolVars, readAllLock, decodes,
                    call, ncalls, ret, searchVars >>
    /\ UNCHANGED << diskVars, ioVars, libVars >>

\* for _, entry := range db.entries: the slice is read once, here
SearchRange(t) ==
    /\ ~crashed
    /\ pc[t] = "range"
    /\ scan' = [scan EXCEPT ![t] = entries]
    /\ scanIdx' = [scanIdx EXCEPT ![t] = 0]
    /\ pc' = [pc EXCEPT ![t] = "scan"]
    /\ UNCHANGED << pipeVars, codecVars, loadVars, crashed, call, ncalls, ret, sOpts, sQuery, tree, results >>
    /\ UNCHANGED << diskVars, ioVars, libVars >>

\* one turn of the loop up to tree.insert: distance, window, capacity test
SearchVisit(t) ==
    /\ ~crashed
    /\ pc[t] = "scan" /\ scanIdx[t] < Len(scan[t])
    /\ LET opts  == sOpts[t]
           entry == scan[t][scanIdx[t] + 1]
           dist  == Distance(opts, sQuery[t], ViewOf(bowPool, entry.Bow))
       IN  IF ~KnownSortBy(opts)
             THEN /\ crashed' = TRUE
                  /\ pc' = [pc EXCEPT ![t] = "panic"]
                  /\ UNCHANGED << scanIdx, tree >>
           ELSE IF OutsideWindow(opts, dist)
             THEN /\ scanIdx' = [scanIdx EXCEPT ![t] = @ + 1]
                  /\ UNCHANGED << crashed, pc, tree >>
           ELSE IF AtLimit(opts, tree[t]) /\ ~bstHasNodes(tree[t])
             THEN /\ crashed' = TRUE
                  /\ pc' = [pc EXCEPT ![t] = "panic"]
                  /\ UNCHANGED << scanIdx, tree >>
           ELSE IF AtLimit(opts, tree[t]) /\ NotBetter(opts, tree[t], dist)
             THEN /\ scanIdx' = [scanIdx EXCEPT ![t] = @ + 1]
                  /\ UNCHANGED << crashed, pc, tree >>
           ELSE   /\ tree' = [tree EXCEPT ![t] = bstInsert(@, entry, dist)]
                  /\ pc' = [pc EXCEPT ![t] = "inserted"]
                  /\ UNCHANGED << crashed, scanIdx >>
    /\ UNCHANGED << pipeVars, codecVars, loadVars, call, ncalls, ret, sOpts, sQuery, scan, results >>
    /\ UNCHANGED << diskVars, ioVars, libVars >>

\* the rest of the turn: the eviction of the worst hit and the sanity check
SearchEvict(t) ==
    /\ ~crashed
    /\ pc[t] = "inserted"
    /\ LET opts == sOpts[t]
           tr2  == IF MustEvict(opts, tree[t]) THEN EvictWorst(opts, tree[t]) ELSE tree[t]
       IN  /\ tree' = [tree EXCEPT ![t] = tr2]
           /\ IF opts.Limit >= 0 /\ bstSize(tr2) > opts.Limit
                THEN /\ crashed' = TRUE
                     /\ pc' = [pc EXCEPT ![t] = "panic"]
                     /\ UNCHANGED scanIdx
                ELSE /\ scanIdx' = [scanIdx EXCEPT ![t] = @ + 1]
                     /\ pc' = [pc EXCEPT ![t] = "scan"]
                     /\ UNCHANGED crashed
    /\ UNCHANGED << pipeVars, codecVars, loadVars, call, ncalls, ret, sOpts, sQuery, scan, results >>
    /\ UNCHANGED << diskVars, ioVars, libVars >>

\* after the loop: the tree is emitted in order, or in reverse order
SearchEmit(t) ==
    /\ ~crashed
    /\ pc[t] = "scan" /\ scanIdx[t] = Len(scan[t])
    /\ LET nodes == EmitOrder(sOpts[t], tree[t])
       IN  results' = [results EXCEPT ![t] =
                          [i \in 1..Len(nodes) |-> newSearchResult(sQuery[t], nodes[i].Bowed)]]
    /\ pc' = [pc EXCEPT ![t] = "idle"]
    /\ UNCHANGED << pipeVars, codecVars, loadVars, crashed, call, ncalls, ret, sOpts, sQuery, scan,
                    scanIdx, tree >>
    /\ UNCHANGED << diskVars, ioVars, libVars >>

(***************************************************************************)
(* A search session: a handle opened on an archive of up to MaxEntries     *)
(* records, and one goroutine that calls Search.                           *)
(***************************************************************************)
SeqsUpTo(S, n) == UNION { [1..k -> S] : k \in 0..n }

Unit1 == [k \in 1..LibSize |-> IF k = 1 THEN 1 ELSE 0]
Ones2 == [k \in 1..LibSize |-> IF k <= 2 THEN 1 ELSE 0]
ZeroBow == [k \in 1..LibSize |-> 0]

Unit2 == [k \in 1..LibSize |-> IF k = 2 THEN 1 ELSE 0]

\* the vectors of the records of a search session
SearchVectors == { ZeroBow, Unit1, Unit2, Ones2 }
SearchQueries == { Unit1, Ones2, ZeroBow }

\* the distance windows tried: everything (SearchDefault), SearchClose, the
\* exact match, and two windows whose bounds are distances that occur
SearchWindows ==
    { [Min |-> 0, Max |-> MaxFloat64],
      [Min |-> 0, Max |-> (35 * Scale) \div 100],
      [Min |-> 0, Max |-> 0],
      [Min |-> Cosine(Unit1, Ones2), Max |-> Scale],
      [Min |-> Scale, Max |-> Euclid(Unit1, Ones2)] }

SearchOptsSet ==
    { [Limit |-> l, Min |-> w.Min, Max |-> w.Max, SortBy |-> s, Order |-> o] :
        l \in (0 - 1)..MaxLimit, w \in SearchWindows,
        s \in {SortByEuclid, SortByCosine}, o \in {OrderAsc, OrderDesc} }

\* the i-th record of a database made of the vectors vs
RecordsOf(vs) == [i \in 1..Len(vs) |-> [Id |-> <<i>>, Data |-> <<>>, Bow |-> vs[i]]]

RECURSIVE writeAll(_, _)
writeAll(save, recs) ==
    IF recs = <<>> THEN save ELSE writeAll(write(save, Head(recs)), Tail(recs))

\* the handle Open returns for an archive whose records are recs
Opened(recs) ==
    /\ InitNoPipe
    /\ mode = "read" /\ written = recs
    /\ saveBuf = <<>>
    /\ tar = << DirMember, LibMember, BowDBMember(writeAll(<<>>, recs)) >>
    /\ fileBuf = writeAll(<<>>, recs)
    /\ InitHandle
    /\ InitDisk

\* the loop of ReadAll run to the end of the stream buf
RECURSIVE readAllFrom(_, _, _, _, _, _)
readAllFrom(buf, es, bpool, blast, dpool, dlast) ==
    LET r == read(buf, bpool, blast, dpool, dlast)
    IN  IF r.err = "nil"
            THEN readAllFrom(r.rest, Append(es, r.entry), r.bowPool, r.bowLast,
                             r.dataPool, r.dataLast)
            ELSE [entries |-> es, bowPool |-> r.bowPool, bowLast |-> r.bowLast,
                  dataPool |-> r.dataPool, dataLast |-> r.dataLast]

\* the handle after Open and a first ReadAll, for an archive whose records are recs
Loaded(recs) ==
    LET l == readAllFrom(writeAll(<<>>, recs), <<>>, <<>>, 0, <<>>, 0)
    IN  /\ InitNoPipe
        /\ mode = "read" /\ written = recs
        /\ saveBuf = <<>>
        /\ tar = << DirMember, LibMember, BowDBMember(writeAll(<<>>, recs)) >>
        /\ fileBuf = <<>>
        /\ InitDisk
        /\ entries = l.entries /\ entriesSet = TRUE
        /\ bowPool = l.bowPool /\ bowLast = l.bowLast
        /\ dataPool = l.dataPool /\ dataLast = l.dataLast
        /\ readAllLock = "free" /\ decodes = 1 /\ raced = FALSE
        /\ InitCalls

InitSearch == \E vs \in SeqsUpTo(SearchVectors, MaxEntries) : Loaded(RecordsOf(vs))

NextSearch ==
    \/ \E opts \in SearchOptsSet, q \in SearchQueries :
            ncalls["t1"] = 0 /\ SearchCall("t1", opts, q)
    \/ SearchNilCheck("t1")
    \/ SearchRange("t1")
    \/ SearchVisit("t1")
    \/ SearchEvict("t1")
    \/ SearchEmit("t1")

SpecSearch == InitSearch /\ [][NextSearch]_vars

(***************************************************************************)
(* A load session: a handle freshly opened on an archive of up to MaxLoad  *)
(* records, shared by the goroutines of Threads, which call ReadAll and    *)
(* Search on it.                                                           *)
(***************************************************************************)
LoadVectors == { Unit1, Ones2 }

\* SearchDefault and SearchClose, with the Limit of SearchDefault scaled to 1
LoadOptsSet ==
    { [Limit |-> 1, Min |-> 0, Max |-> MaxFloat64, SortBy |-> SortByCosine, Order |-> OrderAsc],
      [Limit |-> 0 - 1, Min |-> 0, Max |-> (35 * Scale) \div 100, SortBy |-> SortByCosine,
       Order |-> OrderAsc] }

InitLoad == \E vs \in SeqsUpTo(LoadVectors, MaxLoad) : Opened(RecordsOf(vs))

NextLoad ==
    \E t \in Threads :
        \/ ReadAllCall(t)
        \/ ReadAllLock(t)
        \/ ReadAllCheck(t)
        \/ ReadAllRead(t)
        \/ \E opts \in LoadOptsSet : SearchCall(t, opts, Unit1)
        \/ SearchNilCheck(t)
        \/ SearchRange(t)
        \/ SearchVisit(t)
        \/ SearchEvict(t)
        \/ SearchEmit(t)

SpecLoad == InitLoad /\ [][NextLoad]_vars

(***************************************************************************)
(* A shared session: a handle whose records are loaded, and the goroutines *)
(* of Threads, each of which calls Search on it once.                      *)
(***************************************************************************)
\* bounded and unbounded searches in either order, by either metric or by a
\* SortBy value that names none
SharedOptsSet ==
    { [Limit |-> l, Min |-> 0, Max |-> MaxFloat64, SortBy |-> s, Order |-> o] :
        l \in {0 - 1, 1}, s \in {SortByEuclid, SortByCosine, SortByCosine + 1},
        o \in {OrderAsc, OrderDesc} }

InitShared == \E vs \in SeqsUpTo(LoadVectors, MaxLoad) : Loaded(RecordsOf(vs))

NextShared ==
    \E t \in Threads :
        \/ \E opts \in SharedOptsSet : ncalls[t] = 0 /\ SearchCall(t, opts, Unit1)
        \/ SearchNilCheck(t)
        \/ SearchRange(t)
        \/ SearchVisit(t)
        \/ SearchEvict(t)
        \/ SearchEmit(t)

SpecShared == InitShared /\ [][NextShared]_vars

(***************************************************************************)
(* A session on a cut stream: the record-stream member of the archive      *)
(* holds only the first k bytes of what DB.write made of the records (its  *)
(* header declares those k bytes, so the archive itself is whole), and one *)
(* goroutine calls ReadAll on the handle Open returns.                     *)
(***************************************************************************)
\* the records of such an archive
CutRecords == { [Id |-> m.Id, Data |-> m.Data, Bow |-> v] : m \in RecordMeta, v \in LoadVectors }

\* the handle Open returns when the member holds the first k bytes of the stream
OpenedCut(recs, k) ==
    /\ InitNoPipe
    /\ mode = "read" /\ written = recs
    /\ saveBuf = <<>>
    /\ tar = << DirMember, LibMember, BowDBMember(Take(writeAll(<<>>, recs), k)) >>
    /\ fileBuf = Take(writeAll(<<>>, recs), k)
    /\ InitHandle
    /\ InitDisk

InitCut ==
    \E recs \in SeqsUpTo(CutRecords, MaxLoad) :
        \E k \in 0..Len(writeAll(<<>>, recs)) : OpenedCut(recs, k)

NextCut ==
    \/ ReadAllCall("t1")
    \/ ReadAllLock("t1")
    \/ ReadAllCheck("t1")
    \/ ReadAllRead("t1")

SpecCut == InitCut /\ [][NextCut]_vars

(***************************************************************************)
(* An arena session: a handle opened on an archive of up to MaxEntries     *)
(* records whose payloads are empty, short, as long as a slab of the data  *)
(* pool, or one byte longer; one goroutine calls ReadAll.                  *)
(***************************************************************************)
ArenaRecords ==
    { [Id |-> << n >>, Data |-> [i \in 1..n |-> 7], Bow |-> v] :
        n \in {0, 2, DataSlabBytes, DataSlabBytes + 1}, v \in LoadVectors }

InitArena == \E recs \in SeqsUpTo(ArenaRecords, MaxEntries) : Opened(recs)

SpecArena == InitArena /\ [][NextCut]_vars

(***************************************************************************)
(* A bent archive: the vector item of the first record of the stream is    *)
(* not a sequence of pairs with indices below Lib.Size(): it is shorter    *)
(* than a pair, a pair and a byte, or holds a pair whose index is          *)
(* Lib.Size().  A well-formed record may follow.  One goroutine calls      *)
(* ReadAll.                                                                *)
(***************************************************************************)
InitBent ==
    \E m \in RecordMeta, rest \in SeqsUpTo(CutRecords, 1) :
        \E item \in { << 0 >>,
                      Uint16Bytes(0) \o Float32bits(2) \o << 0 >>,
                      Uint16Bytes(LibSize) \o Float32bits(2),
                      Uint16Bytes(0) \o Float32bits(2) \o Uint16Bytes(LibSize) \o Float32bits(2) } :
            LET stream == writeAll(writeItem(writeItem(writeItem(<<>>, m.Id), m.Data), item), rest)
            IN  /\ InitNoPipe
                /\ mode = "read" /\ written = rest
                /\ saveBuf = <<>>
                /\ tar = << DirMember, LibMember, BowDBMember(stream) >>
                /\ fileBuf = stream
                /\ InitHandle
                /\ InitDisk

SpecBent == InitBent /\ [][NextCut]_vars

(***************************************************************************)
(* A torn archive: the file ends at the start of a record of the stream or *)
(* one byte into it, while the header of the member declares the whole     *)
(* stream.  The goroutines of Threads call ReadAll and Search on the       *)
(* handle Open returns for it.                                             *)
(***************************************************************************)
InitTorn ==
    \E vs \in SeqsUpTo(LoadVectors, MaxLoad) :
        \E j \in 0..(Len(vs) - 1), d \in 0..1 :
            LET whole == writeAll(<<>>, RecordsOf(vs))
                k     == Len(writeAll(<<>>, SubSeq(RecordsOf(vs), 1, j))) + d
            IN  /\ InitNoPipe
                /\ mode = "read" /\ written = RecordsOf(vs)
                /\ saveBuf = <<>>
                /\ tar = << DirMember, LibMember,
                            [name |-> "bow.db", size |-> Len(whole), body |-> Take(whole, k)] >>
                /\ fileBuf = Take(whole, k)
                /\ InitHandle
                /\ InitDisk

SpecTorn == InitTorn /\ [][NextLoad]_vars

(***************************************************************************)
(* The ingestion pipeline.  Archive variant (bowdb/db.go): Add sends the   *)
(* bow.Bowed on the unbuffered entryChan to the writer goroutine; Close    *)
(* closes entryChan, waits on writingDone and commits saveBuf.  Pool       *)
(* variant (CreateDB): Add sends the bower on the unbuffered channel       *)
(* writing, a compute worker makes the Entry and sends it on entryChan;    *)
(* Close closes writing, waits on wg, closes entryChan and waits on        *)
(* writingDone.  A send and its receive are one step.                      *)
(***************************************************************************)
\* the k-th raw object goroutine a adds: an Id, a payload, and the fragment
\* number the library finds best for each of its windows
Bower(a, k) ==
    [Id |-> << AdderNo(a), k >>, Data |-> << k >>,
     best |-> [j \in 1..k |-> (j + AdderNo(a)) % LibSize]]

\* b.StructureBOW(lib): entry i counts the windows whose best fragment is i
BowOfBest(best) == [i \in 1..LibSize |-> Cardinality({ j \in 1..Len(best) : best[j] = i - 1 })]

\* db.NewEntry(bower)
NewEntry(bower) == [Id |-> bower.Id, Data |-> bower.Data, Bow |-> BowOfBest(bower.best)]

\* the loop of the pool variant's DB.write: every frequency, four bytes each
RECURSIVE DenseFloats(_, _)
DenseFloats(freqs, from) ==
    IF from >= LibSize THEN <<>>
    ELSE Float32bits(freqs[from + 1]) \o DenseFloats(freqs, from + 1)

\* DB.write of the pool variant; its writeItem appends to db.file
writeDense(f, entry) ==
    writeItem(writeItem(writeItem(f, entry.Id), entry.Data), DenseFloats(entry.Bow, 0))

\* db.write of the pool variant appends to db.writeBuf unless it has returned
FillBuf(st, bytes) == IF st.err THEN st ELSE [st EXCEPT !.writeBuf = @ \o bytes]

\* db.writeItem of the pool variant on st = [file, writeBuf, err]; fail is
\* "none", "size" (the write of itemLen to db.file fails) or "item" (the write
\* of the buffered bytes fails); a failed write puts nothing on the file, and
\* db.writeBuf.Reset() is reached only when both writes succeed
poolWriteItem(st, fail) ==
    IF st.err THEN st
    ELSE IF fail = "size" THEN [st EXCEPT !.err = TRUE]
    ELSE IF fail = "item"
         THEN [st EXCEPT !.file = @ \o Uint32Bytes(Len(st.writeBuf)), !.err = TRUE]
    ELSE [file |-> writeItem(st.file, st.writeBuf), writeBuf |-> <<>>, err |-> FALSE]

\* which write of the k-th item fails when the failAt-th write to db.file
\* of a record fails (0: none does)
FailOf(failAt, k) ==
    IF failAt = 2 * k - 1 THEN "size" ELSE IF failAt = 2 * k THEN "item" ELSE "none"

\* a write that puts the record in front of the records of the file
poolWrite_InFront(f, wb, entry, failAt) ==
    [file |-> writeDense(<<>>, entry) \o f, writeBuf |-> wb, err |-> FALSE]

\* DB.write of the pool variant on the file f with db.writeBuf holding wb
poolWrite(f, wb, entry, failAt) ==
    LET s0 == [file |-> f, writeBuf |-> wb, err |-> FALSE]
        s1 == poolWriteItem(FillBuf(s0, entry.Id), FailOf(failAt, 1))
        s2 == poolWriteItem(FillBuf(s1, entry.Data), FailOf(failAt, 2))
    IN  poolWriteItem(FillBuf(s2, DenseFloats(entry.Bow, 0)), FailOf(failAt, 3))

\* the channel Add sends on is closed
IntakeClosed == IF variant = "pool" THEN writingClosed ELSE entryChanClosed

\* a send that is delivered on a closed channel too
CanSend_Closed(closed) == TRUE

\* ch <- v can meet a receiver: the channel is not closed
CanSend(closed) == ~closed

\* db.wg.Wait() returns
WaitDone_NoWait(n) == TRUE

WaitDone(n) == n = 0

\* a nil test that lets every handle through
NilChannel_Never == FALSE

\* db.entryChan == nil (db.writing == nil in the pool variant): the handle was
\* opened for reading
NilChannel == mode = "read"

\* Add, up to the send: panic on a handle opened for reading
AddCall(a) ==
    /\ ~crashed /\ mode # "none"
    /\ apc[a] = "idle" /\ nadds[a] < MaxAdds
    /\ nadds' = [nadds EXCEPT ![a] = @ + 1]
    /\ aItem' = [aItem EXCEPT ![a] = Bower(a, nadds[a] + 1)]
    /\ IF NilChannel
          THEN apc' = [apc EXCEPT ![a] = "panic"] /\ crashed' = TRUE
          ELSE apc' = [apc EXCEPT ![a] = "send"] /\ UNCHANGED crashed
    /\ UNCHANGED << variant, writingClosed, entryChanClosed, wg, wpc, wItem, wrpc, wrItem, cpc,
                    file, returned, returnedBeforeClose, codecVars, loadVars, callVars,
                    searchVars >>
    /\ UNCHANGED << diskVars, ioVars, libVars >>

\* a send on a closed channel that waits for a receiver
AddPanic_Blocks(a) ==
    /\ ~crashed
    /\ apc[a] = "send" /\ IntakeClosed
    /\ FALSE
    /\ UNCHANGED vars

\* a send on a closed channel panics
AddPanic(a) ==
    /\ ~crashed
    /\ apc[a] = "send" /\ IntakeClosed
    /\ apc' = [apc EXCEPT ![a] = "panic"]
    /\ crashed' = TRUE
    /\ UNCHANGED << variant, writingClosed, entryChanClosed, wg, aItem, nadds, wpc, wItem, wrpc,
                    wrItem, cpc, file, returned, returnedBeforeClose, codecVars, loadVars,
                    callVars, searchVars >>
    /\ UNCHANGED << diskVars, ioVars, libVars >>

\* a send that returns without a receiver having taken the record
AddToWriter_NoRendezvous(a) ==
    /\ ~crashed /\ variant = "archive"
    /\ apc[a] = "send" /\ CanSend(entryChanClosed)
    /\ apc' = [apc EXCEPT ![a] = "idle"]
    /\ returned' = returned \cup { aItem[a].Id }
    /\ UNCHANGED << variant, writingClosed, entryChanClosed, wg, aItem, nadds, wpc, wItem, wrpc,
                    wrItem, cpc, file, returnedBeforeClose, codecVars, loadVars, crashed,
                    callVars, searchVars >>
    /\ UNCHANGED << diskVars, ioVars, libVars >>

\* archive: db.entryChan <- e meets the writer's range over db.entryChan
AddToWriter(a) ==
    /\ ~crashed /\ variant = "archive"
    /\ apc[a] = "send" /\ CanSend(entryChanClosed)
    /\ wrpc = "recv"
    /\ wrItem' = NewEntry(aItem[a])
    /\ wrpc' = "write"
    /\ apc' = [apc EXCEPT ![a] = "idle"]
    /\ returned' = returned \cup { aItem[a].Id }
    /\ UNCHANGED << variant, writingClosed, entryChanClosed, wg, aItem, nadds, wpc, wItem, cpc,
                    file, returnedBeforeClose, codecVars, loadVars, crashed, callVars,
                    searchVars >>
    /\ UNCHANGED << diskVars, ioVars, libVars >>

\* pool: db.writing <- bower meets a worker's range over db.writing; the
\* worker goes on to db.entryChan <- db.NewEntry(bower)
AddToWorker(a, w) ==
    /\ ~crashed /\ variant = "pool"
    /\ apc[a] = "send" /\ CanSend(writingClosed)
    /\ wpc[w] = "recv"
    /\ wItem' = [wItem EXCEPT ![w] = NewEntry(aItem[a])]
    /\ wpc' = [wpc EXCEPT ![w] = "send"]
    /\ apc' = [apc EXCEPT ![a] = "idle"]
    /\ returned' = returned \cup { aItem[a].Id }
    /\ UNCHANGED << variant, writingClosed, entryChanClosed, wg, aItem, nadds, wrpc, wrItem, cpc,
                    file, returnedBeforeClose, codecVars, loadVars, crashed, callVars,
                    searchVars >>
    /\ UNCHANGED << diskVars, ioVars, libVars >>

\* pool: the first statement of a worker goroutine, db.wg.Add(1)
WorkerStart(w) ==
    /\ ~crashed /\ variant = "pool"
    /\ wpc[w] = "start"
    /\ wg' = wg + 1
    /\ wpc' = [wpc EXCEPT ![w] = "recv"]
    /\ UNCHANGED << variant, writingClosed, entryChanClosed, apc, aItem, nadds, wItem, wrpc,
                    wrItem, cpc, file, returned, returnedBeforeClose, codecVars, loadVars,
                    crashed, callVars, searchVars >>
    /\ UNCHANGED << diskVars, ioVars, libVars >>

\* pool: the worker's send on db.entryChan meets the writer's receive; a send
\* on the closed entryChan panics
WorkerSend(w) ==
    /\ ~crashed /\ variant = "pool"
    /\ wpc[w] = "send"
    /\ IF entryChanClosed
         THEN /\ crashed' = TRUE
              /\ wpc' = [wpc EXCEPT ![w] = "panic"]
              /\ UNCHANGED << wrpc, wrItem >>
         ELSE /\ wrpc = "recv"
              /\ wrItem' = wItem[w]
              /\ wrpc' = "write"
              /\ wpc' = [wpc EXCEPT ![w] = "recv"]
              /\ UNCHANGED crashed
    /\ UNCHANGED << variant, writingClosed, entryChanClosed, wg, apc, aItem, nadds, wItem, cpc,
                    file, returned, returnedBeforeClose, codecVars, loadVars, callVars,
                    searchVars >>
    /\ UNCHANGED << diskVars, ioVars, libVars >>

\* pool: the range over the closed db.writing ends; db.wg.Done()
WorkerExit(w) ==
    /\ ~crashed /\ variant = "pool"
    /\ wpc[w] = "recv" /\ writingClosed
    /\ wg' = wg - 1
    /\ wpc' = [wpc EXCEPT ![w] = "exited"]
    /\ UNCHANGED << variant, writingClosed, entryChanClosed, apc, aItem, nadds, wItem, wrpc,
                    wrItem, cpc, file, returned, returnedBeforeClose, codecVars, loadVars,
                    crashed, callVars, searchVars >>
    /\ UNCHANGED << diskVars, ioVars, libVars >>

\* the writer goroutine: db.write(entry)
WriterWrite ==
    /\ ~crashed
    /\ wrpc = "write"
    /\ IF variant = "archive"
         THEN saveBuf' = write(saveBuf, wrItem) /\ UNCHANGED file
         ELSE /\ file' = poolWrite(file, writeBuf, wrItem, 0).file
              /\ UNCHANGED saveBuf
    /\ writeBuf' = IF variant = "archive" THEN writeBuf
                   ELSE poolWrite(file, writeBuf, wrItem, 0).writeBuf
    /\ written' = Append(written, wrItem)
    /\ wrErrs' = Append(wrErrs, FALSE)
    /\ wrpc' = "recv"
    /\ UNCHANGED << variant, writingClosed, entryChanClosed, wg, apc, aItem, nadds, wpc, wItem,
                    wrItem, cpc, returned, returnedBeforeClose, mode, tar, loadVars, crashed,
                    callVars, searchVars >>
    /\ UNCHANGED << diskVars, libVars >>

\* the writer goroutine of the pool variant: db.write(entry) returns an error
\* of the failAt-th write to db.file; the goroutine logs it and goes on
WriterWriteFail ==
    /\ ~crashed /\ variant = "pool"
    /\ wrpc = "write"
    /\ Cardinality({ i \in 1..Len(wrErrs) : wrErrs[i] }) < MaxFaults
    /\ \E failAt \in 1..6 :
          /\ file' = poolWrite(file, writeBuf, wrItem, failAt).file
          /\ writeBuf' = poolWrite(file, writeBuf, wrItem, failAt).writeBuf
    /\ written' = Append(written, wrItem)
    /\ wrErrs' = Append(wrErrs, TRUE)
    /\ wrpc' = "recv"
    /\ UNCHANGED << variant, writingClosed, entryChanClosed, wg, apc, aItem, nadds, wpc, wItem,
                    wrItem, cpc, returned, returnedBeforeClose, mode, saveBuf, tar, loadVars,
                    crashed, callVars, searchVars >>
    /\ UNCHANGED << diskVars, libVars >>

\* the writer goroutine: the range over the closed db.entryChan ends
WriterFinish ==
    /\ ~crashed
    /\ wrpc = "recv" /\ entryChanClosed
    /\ wrpc' = "signal"
    /\ UNCHANGED << variant, writingClosed, entryChanClosed, wg, apc, aItem, nadds, wpc, wItem,
                    wrItem, cpc, file, returned, returnedBeforeClose, codecVars, loadVars,
                    crashed, callVars, searchVars >>
    /\ UNCHANGED << diskVars, ioVars, libVars >>

\* a Close that takes every handle for one that writes
HasWriter_Always == TRUE

\* db.tw != nil (db.writing != nil in the pool variant): the handle was made
\* for writing
HasWriter == mode = "write"

\* Close: close(db.entryChan) (archive), close(db.writing) (pool); on a handle
\* opened for reading there is nothing to wait for
CloseCall ==
    /\ ~crashed /\ mode # "none"
    /\ cpc = "idle"
    /\ IF ~HasWriter
         THEN cpc' = "closed" /\ UNCHANGED << entryChanClosed, writingClosed >>
         ELSE IF variant = "archive"
         THEN entryChanClosed' = TRUE /\ cpc' = "recvDone" /\ UNCHANGED writingClosed
         ELSE writingClosed' = TRUE /\ cpc' = "wait" /\ UNCHANGED entryChanClosed
    /\ returnedBeforeClose' = returned
    /\ UNCHANGED << variant, wg, apc, aItem, nadds, wpc, wItem, wrpc, wrItem, file, returned,
                    codecVars, loadVars, crashed, callVars, searchVars >>
    /\ UNCHANGED << diskVars, ioVars, libVars >>

\* Close (pool): db.wg.Wait()
CloseWait ==
    /\ ~crashed
    /\ cpc = "wait" /\ WaitDone(wg)
    /\ cpc' = "closeEntry"
    /\ UNCHANGED << variant, writingClosed, entryChanClosed, wg, apc, aItem, nadds, wpc, wItem,
                    wrpc, wrItem, file, returned, returnedBeforeClose, codecVars, loadVars,
                    crashed, callVars, searchVars >>
    /\ UNCHANGED << diskVars, ioVars, libVars >>

\* Close (pool): close(db.entryChan)
CloseEntryChan ==
    /\ ~crashed
    /\ cpc = "closeEntry"
    /\ entryChanClosed' = TRUE
    /\ cpc' = "recvDone"
    /\ UNCHANGED << variant, writingClosed, wg, apc, aItem, nadds, wpc, wItem, wrpc, wrItem,
                    file, returned, returnedBeforeClose, codecVars, loadVars, crashed, callVars,
                    searchVars >>
    /\ UNCHANGED << diskVars, ioVars, libVars >>

\* Close: <-db.writingDone meets the writer's db.writingDone <- struct{}{}
CloseRecvDone ==
    /\ ~crashed
    /\ cpc = "recvDone" /\ wrpc = "signal"
    /\ wrpc' = "exited"
    /\ cpc' = "commit"
    /\ UNCHANGED << variant, writingClosed, entryChanClosed, wg, apc, aItem, nadds, wpc, wItem,
                    wrItem, file, returned, returnedBeforeClose, codecVars, loadVars, crashed,
                    callVars, searchVars >>
    /\ UNCHANGED << diskVars, ioVars, libVars >>

\* Close: the header and the bytes of saveBuf written to the archive, then
\* db.tw.Close() (archive); db.file.Close() (pool)
CloseCommit ==
    /\ ~crashed
    /\ cpc = "commit"
    /\ tar' = IF variant = "archive"
                THEN Append(tar, BowDBMember(saveBuf)) ELSE tar
    /\ cpc' = "closed"
    /\ UNCHANGED << variant, writingClosed, entryChanClosed, wg, apc, aItem, nadds, wpc, wItem,
                    wrpc, wrItem, file, returned, returnedBeforeClose, mode, saveBuf, written,
                    loadVars, crashed, callVars, searchVars >>
    /\ UNCHANGED << diskVars, ioVars, libVars >>

\* the handle Create (v = "archive") or CreateDB (v = "pool") returns
InitIngest ==
    /\ variant \in {"archive", "pool"}
    /\ writingClosed = FALSE /\ entryChanClosed = FALSE /\ wg = 0
    /\ apc = [a \in Adders |-> "idle"]
    /\ aItem = [a \in Adders |-> NoEntry]
    /\ nadds = [a \in Adders |-> 0]
    /\ wpc = [w \in Workers |-> IF variant = "pool" THEN "start" ELSE "none"]
    /\ wItem = [w \in Workers |-> NoEntry]
    /\ wrpc = "recv" /\ wrItem = NoEntry
    /\ cpc = "idle"
    /\ file = <<>>
    /\ returned = {} /\ returnedBeforeClose = {}
    /\ mode = "write" /\ saveBuf = <<>> /\ written = <<>>
    /\ tar = << DirMember, LibMember >>
    /\ fileBuf = <<>>
    /\ InitHandle
    /\ InitDisk

\* the steps the goroutines of the pipeline take on their own
PipelineStep ==
    \/ \E a \in Adders : AddPanic(a)
    \/ \E a \in Adders : AddToWriter(a)
    \/ \E a \in Adders, w \in Workers : AddToWorker(a, w)
    \/ \E w \in Workers : WorkerStart(w)
    \/ \E w \in Workers : WorkerSend(w)
    \/ \E w \in Workers : WorkerExit(w)
    \/ WriterWrite
    \/ WriterFinish
    \/ CloseWait
    \/ CloseEntryChan
    \/ CloseRecvDone
    \/ CloseCommit

NextIngest ==
    \/ \E a \in Adders : AddCall(a)
    \/ CloseCall
    \/ PipelineStep

SpecIngest == InitIngest /\ [][NextIngest]_vars

\* the pipeline on a file whose writes can fail
NextFault ==
    \/ NextIngest
    \/ WriterWriteFail

SpecFault == InitIngest /\ [][NextFault]_vars

\* the scheduler runs a goroutine that can take a step
SpecIngestFair == SpecIngest /\ WF_vars(PipelineStep)

\* the record stream of the database: the bow.db member or file
RecordStream ==
    IF variant = "pool" THEN file
    ELSE IF Len(tar) >= 3 THEN tar[3].body ELSE <<>>

\* the identifiers of the records a reader finds in a stream: three items a record
RECURSIVE readIds(_)
readIds(buf) ==
    LET i1 == readItem(buf)
        i2 == readItem(i1.rest)
        i3 == readItem(i2.rest)
    IN  IF i1.err # "nil" \/ i2.err # "nil" \/ i3.err # "nil" THEN <<>>
        ELSE << i1.item >> \o readIds(i3.rest)

(***************************************************************************)
(* The life of a handle.  A path of the file system either holds nothing   *)
(* or holds a finished database.  Create (CreateDB in the pool variant) or *)
(* Open (OpenDB) is called on it once; on the handle it returns, Add and   *)
(* Close are called as in the ingestion pipeline, and one goroutine calls  *)
(* ReadAll and Search (bowdb/db.go).                                       *)
(***************************************************************************)
RECURSIVE writeAllDense(_, _)
writeAllDense(f, recs) ==
    IF recs = <<>> THEN f ELSE writeAllDense(writeDense(f, Head(recs)), Tail(recs))

\* what a finished database of the records recs is on disk
ArchiveOf(recs) == << DirMember, LibMember, BowDBMember(writeAll(<<>>, recs)) >>

\* no constructor has been called: no handle, nothing or a finished database
\* of the records recs at the path
InitPath ==
    /\ variant \in {"archive", "pool"}
    /\ NoPipe
    /\ mode = "none" /\ ctorRet = "none"
    /\ saveBuf = <<>> /\ fileBuf = <<>>
    /\ InitHandle
    /\ pathExists \in BOOLEAN
    /\ IF pathExists
          THEN \E vs \in SeqsUpTo(LoadVectors, MaxLoad) :
                  /\ written = RecordsOf(vs)
                  /\ tar = IF variant = "archive" THEN ArchiveOf(RecordsOf(vs)) ELSE <<>>
                  /\ file = IF variant = "pool" THEN writeAllDense(<<>>, RecordsOf(vs)) ELSE <<>>
          ELSE written = <<>> /\ tar = <<>> /\ file = <<>>

\* a Stat that never finds anything at the path
PathTaken_Ignored == FALSE

\* os.Stat(fpath): err == nil || !os.IsNotExist(err)
PathTaken == pathExists

\* Create (CreateDB): an error when the path exists; else the file is made,
\* the directory entry and the library are written (archive), the channels
\* are made and the goroutines started
Create ==
    /\ ~crashed /\ mode = "none" /\ ctorRet = "none"
    /\ IF PathTaken
          THEN /\ ctorRet' = "AlreadyExists"
               /\ UNCHANGED << pathExists, mode, tar, file, written, wrpc, wpc >>
          ELSE /\ ctorRet' = "nil"
               /\ pathExists' = TRUE
               /\ mode' = "write"
               /\ tar' = IF variant = "archive" THEN << DirMember, LibMember >> ELSE <<>>
               /\ file' = <<>>
               /\ written' = <<>>
               /\ wrpc' = "recv"
               /\ wpc' = [w \in Workers |-> IF variant = "pool" THEN "start" ELSE "none"]
    /\ UNCHANGED << variant, writingClosed, entryChanClosed, wg, apc, aItem, nadds, wItem, wrItem,
                    cpc, returned, returnedBeforeClose, saveBuf, loadVars, crashed, callVars,
                    searchVars, ioVars, libVars >>

\* Open (OpenDB): an error when nothing is at the path or the archive has no
\* record-stream member; else fileBuf is put over the record stream
Open ==
    /\ ~crashed /\ mode = "none" /\ ctorRet = "none"
    /\ IF ~pathExists
          THEN ctorRet' = "NotExist" /\ UNCHANGED << mode, fileBuf >>
          ELSE IF variant = "archive" /\ Len(tar) < 3
          THEN ctorRet' = "EOF" /\ UNCHANGED << mode, fileBuf >>
          ELSE /\ ctorRet' = "nil"
               /\ mode' = "read"
               /\ fileBuf' = IF variant = "archive" THEN tar[3].body ELSE file
    /\ UNCHANGED << pipeVars, saveBuf, tar, written, entries, entriesSet, poolVars, readAllLock,
                    decodes, raced, crashed, callVars, searchVars, pathExists, ioVars, libVars >>

NextHandle ==
    \/ Create
    \/ Open
    \/ \E a \in Adders : AddCall(a)
    \/ CloseCall
    \/ PipelineStep
    \/ variant = "archive" /\ ReadAllCall("t1")
    \/ ReadAllLock("t1")
    \/ ReadAllCheck("t1")
    \/ ReadAllRead("t1")
    \/ \E opts \in LoadOptsSet : variant = "archive" /\ SearchCall("t1", opts, Unit1)
    \/ SearchNilCheck("t1")
    \/ SearchRange("t1")
    \/ SearchVisit("t1")
    \/ SearchEvict("t1")
    \/ SearchEmit("t1")

SpecHandle == InitPath /\ [][NextHandle]_vars

(***************************************************************************)
(* A fragment library and the bag-of-words helpers.  structureAtoms.add     *)
(* (structure.go) and sequenceProfile.add (sequence_profile.go) are the    *)
(* same code on Fragments and FragSize; a fragment is held by its number   *)
(* and its length.  StructureBow and SequenceBow (package bow) slide a     *)
(* window of FragmentSize over an input of n atoms or residues and ask the *)
(* library for the best fragment of each window; what the library answers  *)
(* for a window is an input of the call.                                   *)
(***************************************************************************)
\* an add that takes every fragment, whatever its length
add_AnyLength(n) ==
    /\ bowRet = NoBow
    /\ Fragments' = Append(Fragments, [FragNumber |-> Len(Fragments), Len |-> n])
    /\ FragSize' = IF Fragments = <<>> THEN n ELSE FragSize
    /\ addRet' = "nil"
    /\ UNCHANGED << pipeVars, codecVars, loadVars, crashed, callVars, searchVars, diskVars,
                    ioVars, bowRet >>

\* lib.add(coords), lib.add(prof): n is len(coords), prof.Len()
add(n) ==
    /\ bowRet = NoBow
    /\ IF Fragments = <<>>
          THEN /\ Fragments' = << [FragNumber |-> 0, Len |-> n] >>
               /\ FragSize' = n
               /\ addRet' = "nil"
          ELSE IF FragSize # n
          THEN /\ addRet' = "error"
               /\ UNCHANGED << Fragments, FragSize >>
          ELSE /\ Fragments' = Append(Fragments, [FragNumber |-> Len(Fragments), Len |-> n])
               /\ addRet' = "nil"
               /\ UNCHANGED FragSize
    /\ UNCHANGED << pipeVars, codecVars, loadVars, crashed, callVars, searchVars, diskVars,
                    ioVars, bowRet >>

\* the number of turns of `for i := 0; i <= uplimit; i++`
NumWindows(n) == IF n - FragSize < 0 THEN 0 ELSE n - FragSize + 1

\* what structureAtoms.BestStructureFragment returns: -1 when the library
\* has no fragment, else the number of a fragment
BestStructureAnswers == IF Fragments = <<>> THEN {0 - 1} ELSE 0..(Len(Fragments) - 1)

\* what sequenceProfile.BestSequenceFragment returns: -1 when no fragment
\* has an alignment probability above seq.MinProb, else the number of a fragment
BestSequenceAnswers == IF Fragments = <<>> THEN {0 - 1} ELSE (0 - 1)..(Len(Fragments) - 1)

\* the loop of StructureBow from window i on: b.Freqs[best] += 1, which
\* panics for an index outside b.Freqs
RECURSIVE StructureBowFrom(_, _, _)
StructureBowFrom(freqs, best, i) ==
    IF i > Len(best) THEN [err |-> "nil", Freqs |-> freqs]
    ELSE IF best[i] < 0 \/ best[i] >= Len(freqs) THEN [err |-> "panic", Freqs |-> <<>>]
    ELSE StructureBowFrom([freqs EXCEPT ![best[i] + 1] = @ + 1], best, i + 1)

\* the loop of SequenceBow from window i on: if best < 0 { continue }
RECURSIVE SequenceBowFrom(_, _, _)
SequenceBowFrom(freqs, best, i) ==
    IF i > Len(best) THEN [err |-> "nil", Freqs |-> freqs]
    ELSE IF best[i] < 0 THEN SequenceBowFrom(freqs, best, i + 1)
    ELSE IF best[i] >= Len(freqs) THEN [err |-> "panic", Freqs |-> <<>>]
    ELSE SequenceBowFrom([freqs EXCEPT ![best[i] + 1] = @ + 1], best, i + 1)

\* StructureBow(lib, atoms) for an unweighted library, len(atoms) = n
StructureBow(n, best) ==
    /\ bowRet = NoBow
    /\ LET r == StructureBowFrom([k \in 1..Len(Fragments) |-> 0], best, 1)
       IN  bowRet' = [fn |-> "StructureBow", n |-> n, best |-> best, err |-> r.err,
                      Freqs |-> r.Freqs]
    /\ UNCHANGED << pipeVars, codecVars, loadVars, crashed, callVars, searchVars, diskVars,
                    ioVars, Fragments, FragSize, addRet >>

\* SequenceBow(lib, s) for an unweighted library, s.Len() = n
SequenceBow(n, best) ==
    /\ bowRet = NoBow
    /\ LET r == SequenceBowFrom([k \in 1..Len(Fragments) |-> 0], best, 1)
       IN  bowRet' = [fn |-> "SequenceBow", n |-> n, best |-> best, err |-> r.err,
                      Freqs |-> r.Freqs]
    /\ UNCHANGED << pipeVars, codecVars, loadVars, crashed, callVars, searchVars, diskVars,
                    ioVars, Fragments, FragSize, addRet >>

\* no handle: a library is built and a bag-of-words computed with it
InitLibrary ==
    /\ InitNoPipe
    /\ mode = "none" /\ ctorRet = "none" /\ pathExists = FALSE
    /\ saveBuf = <<>> /\ fileBuf = <<>> /\ written = <<>> /\ tar = <<>>
    /\ InitHandle

NextLibrary ==
    \/ \E n \in 0..MaxFragSize : Len(Fragments) < LibSize + 1 /\ add(n)
    \/ \E n \in 0..MaxAtoms : \E best \in [1..NumWindows(n) -> BestStructureAnswers] :
            StructureBow(n, best)
    \/ \E n \in 0..MaxAtoms : \E best \in [1..NumWindows(n) -> BestSequenceAnswers] :
            SequenceBow(n, best)

SpecLibrary == InitLibrary /\ [][NextLibrary]_vars

(***************************************************************************)
(* Claims.                                                                 *)
(***************************************************************************)
\* a ReadAll of goroutine t has returned without error
ReadAllDone(t) == pc[t] = "idle" /\ call[t] = "ReadAll" /\ ret[t].err = "nil"

\* C1: round trip.  Whenever ReadAll has decoded the stream DB.write made, the
\* decoded records equal the written ones: same Id, same Data bytes, same value
\* at every index of the vector (so zero wherever no pair was written).
C1_RoundTrip == ReadAllDone("t1") => DerefAll(ret["t1"].list) = written

\* the same for the records whose vector has no negative entry
C1_RoundTripNonNegative ==
    (ReadAllDone("t1") /\ \A i \in 1..Len(written) : \A k \in 1..LibSize : written[i].Bow[k] >= 0)
        => DerefAll(ret["t1"].list) = written

(***************************************************************************)
(* Search claims (SpecSearch).                                             *)
(***************************************************************************)
\* the Search call of goroutine t has returned its list
SearchDone(t) == pc[t] = "idle" /\ call[t] = "Search"

\* the sort-metric distance of the query of t to the i-th loaded entry
EntryDist(t, i) == Distance(sOpts[t], sQuery[t], ViewOf(bowPool, entries[i].Bow))

\* the sort-metric distance a result carries
ResultDist(t, r) == IF sOpts[t].SortBy = SortByCosine THEN r.Cosine ELSE r.Euclid

ResultDists(t) == [i \in 1..Len(results[t]) |-> ResultDist(t, results[t][i])]

\* the loaded entries whose distance lies in [Min, Max]
Qualifying(t) ==
    { i \in 1..Len(entries) : sOpts[t].Min <= EntryDist(t, i) /\ EntryDist(t, i) <= sOpts[t].Max }

\* how often the value d occurs in the sequence s
Occurrences(s, d) == Cardinality({ i \in 1..Len(s) : s[i] = d })

\* the number of qualifying entries strictly better than distance d
Better(t, d) ==
    Cardinality({ i \in Qualifying(t) :
        IF sOpts[t].Order = OrderAsc THEN EntryDist(t, i) < d ELSE EntryDist(t, i) > d })

\* the number of qualifying entries at distance d
Equal(t, d) == Cardinality({ i \in Qualifying(t) : EntryDist(t, i) = d })

Min2(a, b) == IF a < b THEN a ELSE b
Max2(a, b) == IF a > b THEN a ELSE b

\* how often distance d occurs among the K best qualifying distances
InTopK(t, d, K) == Max2(0, Min2(Equal(t, d), K - Better(t, d)))

\* C2: top-K correctness.  For Limit K >= 1 the distances of the list Search
\* returns are, as a multiset, the K best distances (smallest for OrderAsc,
\* largest for OrderDesc) of the entries inside the window, or all of them
\* when fewer than K qualify; so no entry left out beats an entry returned.
C2_TopK ==
    \A t \in Threads :
        (SearchDone(t) /\ sOpts[t].Limit >= 1) =>
            /\ Len(results[t]) = Min2(sOpts[t].Limit, Cardinality(Qualifying(t)))
            /\ \A i \in 1..Len(entries) :
                   Occurrences(ResultDists(t), EntryDist(t, i))
                       = IF i \in Qualifying(t)
                           THEN InTopK(t, EntryDist(t, i), sOpts[t].Limit) ELSE 0

\* a Search with Limit K >= 1 returned K results although more entries
\* qualified, and the entry scanned first was displaced by a later, better one
C2_Witness ==
    /\ SearchDone("t1") /\ sOpts["t1"].Limit >= 1
    /\ Cardinality(Qualifying("t1")) > sOpts["t1"].Limit
    /\ Len(results["t1"]) = sOpts["t1"].Limit
    /\ 1 \in Qualifying("t1")
    /\ \A i \in 1..Len(results["t1"]) : results["t1"][i].Bowed.Id # <<1>>

\* C3: bounded result size.  For Limit >= 0 the tree of a Search holds at most
\* Limit+1 nodes between the insertion and the eviction of a turn, at most
\* Limit at every other point, and the returned list has at most Limit elements.
C3_BoundedSize ==
    \A t \in Threads :
        (call[t] = "Search" /\ sOpts[t].Limit >= 0) =>
            /\ bstSize(tree[t]) <= sOpts[t].Limit + 1
            /\ pc[t] # "inserted" => bstSize(tree[t]) <= sOpts[t].Limit
            /\ Len(results[t]) <= sOpts[t].Limit

\* a turn of the scan has pushed the tree to Limit+1 nodes, for a Limit >= 1
C3_Witness ==
    /\ pc["t1"] = "inserted" /\ sOpts["t1"].Limit >= 1
    /\ bstSize(tree["t1"]) = sOpts["t1"].Limit + 1

\* C4: ordering.  The list Search returns is monotonic in the SortBy metric:
\* non-decreasing for OrderAsc, non-increasing for OrderDesc.
C4_Ordered ==
    \A t \in Threads :
        SearchDone(t) =>
            \A i \in 1..(Len(results[t]) - 1) :
                IF sOpts[t].Order = OrderAsc
                    THEN ResultDist(t, results[t][i]) <= ResultDist(t, results[t][i + 1])
                    ELSE ResultDist(t, results[t][i]) >= ResultDist(t, results[t][i + 1])

\* a descending search returned three results of falling distance, the last
\* of which was the first entry scanned
C4_Witness ==
    /\ SearchDone("t1") /\ sOpts["t1"].Order = OrderDesc
    /\ Len(results["t1"]) = 3
    /\ ResultDist("t1", results["t1"][1]) > ResultDist("t1", results["t1"][3])
    /\ results["t1"][3].Bowed.Id = <<1>>

\* C5: threshold.  Every result has a distance d with Min <= d <= Max, and the
\* window test keeps the distances equal to Min or to Max: an unbounded search
\* returns every entry at such a distance.
C5_Threshold ==
    \A t \in Threads :
        SearchDone(t) =>
            /\ \A i \in 1..Len(results[t]) :
                   /\ sOpts[t].Min <= ResultDist(t, results[t][i])
                   /\ ResultDist(t, results[t][i]) <= sOpts[t].Max
            /\ sOpts[t].Limit < 0 =>
                   \A i \in Qualifying(t) :
                       EntryDist(t, i) \in {sOpts[t].Min, sOpts[t].Max} =>
                           \E k \in 1..Len(results[t]) : results[t][k].Bowed.Id = entries[i].Id

\* an unbounded search with 0 < Min < Max returned an entry at distance Min and
\* one at distance Max, and dropped an entry outside the window
C5_Witness ==
    /\ SearchDone("t1") /\ sOpts["t1"].Limit < 0
    /\ 0 < sOpts["t1"].Min /\ sOpts["t1"].Min < sOpts["t1"].Max
    /\ \E i \in 1..Len(results["t1"]) : ResultDist("t1", results["t1"][i]) = sOpts["t1"].Min
    /\ \E i \in 1..Len(results["t1"]) : ResultDist("t1", results["t1"][i]) = sOpts["t1"].Max
    /\ Cardinality(Qualifying("t1")) < Len(entries)

\* C6: unbounded search.  With Limit < 0 a Search with a known SortBy does not
\* stop at the capacity test, and its list holds exactly the entries whose
\* distance lies in [Min, Max], one result for each.
C6_Unbounded ==
    \A t \in Threads :
        (call[t] = "Search" /\ sOpts[t].Limit < 0) =>
            /\ pc[t] # "panic"
            /\ SearchDone(t) =>
                   /\ Len(results[t]) = Cardinality(Qualifying(t))
                   /\ \A i \in Qualifying(t) :
                          Cardinality({ k \in 1..Len(results[t]) :
                                            results[t][k].Bowed.Id = entries[i].Id }) = 1

\* an unbounded search returned several results and left an entry out
C6_Witness ==
    /\ SearchDone("t1") /\ sOpts["t1"].Limit < 0
    /\ Len(results["t1"]) >= 2
    /\ Len(results["t1"]) < Len(entries)

(***************************************************************************)
(* Load claims (SpecLoad).                                                 *)
(***************************************************************************)
\* C9: load exactly once.  However the ReadAll calls of several goroutines
\* (direct, or made by Search) interleave on a freshly opened handle, the
\* stream is decoded by one of them only, db.entries never holds a record
\* twice, and every ReadAll call returns the complete record set.
C9_LoadOnce ==
    /\ decodes <= 1
    /\ Len(entries) <= Len(written)
    /\ \A i, j \in 1..Len(entries) : entries[i].Id = entries[j].Id => i = j
    /\ \A t \in Threads : ret[t].err = "nil" => DerefAll(ret[t].list) = written

\* two goroutines have each made one call, a ReadAll and a Search, the second
\* reached the lock while the first held it, the stream of two records was
\* decoded once and the ReadAll returned both records
C9_Witness ==
    /\ raced /\ decodes = 1
    /\ ncalls["t1"] = 1 /\ ncalls["t2"] = 1
    /\ pc["t1"] = "idle" /\ call["t1"] = "Search" /\ ret["t1"].err = "nil"
    /\ ReadAllDone("t2") /\ Len(ret["t2"].list) = 2

\* C10: a query is never served partially.  The db.entries value the loop of
\* Search iterates is the complete record set of the database.
C10_NeverPartial ==
    \A t \in Threads :
        (call[t] = "Search" /\ pc[t] \in {"scan", "inserted", "idle"}) =>
            DerefAll(scan[t]) = written

\* a goroutine began to decode the stream and has left the loop of ReadAll
\* without a panic: a first ReadAll has returned successfully
FirstLoadDone == decodes >= 1 /\ \A t \in Threads : pc[t] \notin {"loop", "panic"}

\* C11: ReadAll is idempotent.  Once a first ReadAll has returned
\* successfully, no step of a later call consumes bytes of the record stream
\* or changes the pools or db.entries, and every later ReadAll that returns
\* returns db.entries as the first call left it.
C11_Idempotent ==
    [][FirstLoadDone =>
          /\ fileBuf' = fileBuf /\ entries' = entries /\ entriesSet' = entriesSet
          /\ bowPool' = bowPool /\ bowLast' = bowLast
          /\ dataPool' = dataPool /\ dataLast' = dataLast
          /\ \A t \in Threads :
                (ret'[t] # ret[t] /\ ret'[t].err = "nil") => ret'[t].list = entries]_vars

\* both goroutines called ReadAll itself on an archive of two records and both
\* calls have returned: one decoded the stream, the other found the cache
C11_Witness ==
    /\ decodes = 1 /\ Len(entries) = 2
    /\ ReadAllDone("t1") /\ ReadAllDone("t2")
    /\ ret["t1"].list = entries /\ ret["t2"].list = entries

(***************************************************************************)
(* Claims about a cut stream (SpecCut).                                    *)
(***************************************************************************)
\* how a byte stream ends: the number of whole length-prefixed items in it,
\* and whether bytes of a further item (a part of its prefix, or a part of the
\* bytes its prefix declares) follow them
RECURSIVE StreamEnd(_)
StreamEnd(buf) ==
    IF buf = <<>> THEN [items |-> 0, partial |-> FALSE]
    ELSE IF Len(buf) < 4 THEN [items |-> 0, partial |-> TRUE]
    ELSE IF Len(buf) < 4 + Uint32Of(SubSeq(buf, 1, 4)) THEN [items |-> 0, partial |-> TRUE]
    ELSE LET r == StreamEnd(SubSeq(buf, 5 + Uint32Of(SubSeq(buf, 1, 4)), Len(buf)))
         IN  [items |-> r.items + 1, partial |-> r.partial]

\* the ReadAll call of goroutine t has returned
ReadAllReturned(t) == pc[t] = "idle" /\ call[t] = "ReadAll" /\ ret[t].err # "none"

\* C12: truncation is a hard error.  When the record stream ends inside an
\* item (inside its length prefix or inside its declared bytes), ReadAll
\* returns an error.
C12_TruncationIsError ==
    \A t \in Threads :
        (ReadAllReturned(t) /\ StreamEnd(tar[3].body).partial) => ret[t].err # "nil"

\* C13: no silent truncation of the load.  When the record stream ends
\* between the items of a record (after its identifier or after its payload),
\* ReadAll returns an error and not the records decoded so far.
C13_NoSilentTruncation ==
    \A t \in Threads :
        (/\ ReadAllReturned(t)
         /\ ~StreamEnd(tar[3].body).partial
         /\ StreamEnd(tar[3].body).items % 3 # 0) => ret[t].err # "nil"

\* when the stream ends at a record boundary ReadAll returns every record of it
CutAtBoundaryLoadsAll ==
    \A t \in Threads :
        (/\ ReadAllReturned(t)
         /\ ~StreamEnd(tar[3].body).partial
         /\ StreamEnd(tar[3].body).items % 3 = 0) =>
            /\ ret[t].err = "nil"
            /\ 3 * Len(ret[t].list) = StreamEnd(tar[3].body).items

(***************************************************************************)
(* Ingestion claims (SpecIngest).                                          *)
(***************************************************************************)
\* C7: no loss, no duplication.  When Close has returned, the record stream
\* holds exactly one record for every Add call that returned before Close
\* was called, and no other record: n records written, n records read back.
C7_NoLossNoDup ==
    cpc = "closed" =>
        /\ Len(readIds(RecordStream)) = Cardinality(returnedBeforeClose)
        /\ \A id \in returnedBeforeClose : Occurrences(readIds(RecordStream), id) = 1

\* Close of the pool variant has returned after two goroutines added three
\* objects in all
C7_Witness ==
    /\ cpc = "closed" /\ variant = "pool"
    /\ Cardinality(returnedBeforeClose) = 3
    /\ nadds["a1"] >= 1 /\ nadds["a2"] >= 1

\* the same for the archive variant
C7_WitnessArchive ==
    /\ cpc = "closed" /\ variant = "archive"
    /\ Cardinality(returnedBeforeClose) = 3
    /\ nadds["a1"] >= 1 /\ nadds["a2"] >= 1

\* C8, the state Close returns in: the intake is closed, every compute worker
\* has exited, and the writer has written every record and exited.
C8_CloseQuiescent ==
    cpc = "closed" =>
        /\ IntakeClosed
        /\ variant = "pool" => \A w \in Workers : wpc[w] = "exited"
        /\ wrpc = "exited"
        /\ Len(written) = Cardinality(returnedBeforeClose)

\* C8, termination: a Close that was called returns, unless a goroutine panics
\* (an Add that meets the closed intake)
C8_CloseTerminates == (cpc # "idle") ~> (cpc = "closed" \/ crashed)


\* C15: Add on a write-mode handle that Close has closed fails.  Every record
\* the writer is given comes from an Add call that returned, and once Close has
\* closed the channel Add sends on no Add call returns any more: a call that
\* is at its send stays there or panics.
C15_ClosedAddFails ==
    /\ [](\A i \in 1..Len(written) : written[i].Id \in returned)
    /\ [][IntakeClosed =>
             /\ returned' = returned
             /\ \A a \in Adders :
                   apc[a] = "send" => (apc'[a] = "send" \/ (apc'[a] = "panic" /\ crashed'))]_vars

\* an Add call made after Close had returned has panicked and its record is
\* not in what the writer wrote
C15_Witness ==
    /\ cpc = "closed"
    /\ \E a \in Adders :
          /\ apc[a] = "panic" /\ aItem[a].Id \notin returned
          /\ \A i \in 1..Len(written) : written[i].Id # aItem[a].Id
    /\ Len(written) >= 1

(***************************************************************************)
(* Claims about the life of a handle (SpecHandle).                         *)
(***************************************************************************)
\* C14: Add on a handle opened for reading panics before it sends anything.
\* On such a handle the only step an Add call takes is the panic, and that
\* step leaves db.entries, the stream cursor, the pools, the record stream
\* and what the goroutines of a pipeline would hold as they were.
C14_ReadModeAddPanics ==
    [][\A a \in Adders :
          (mode = "read" /\ apc'[a] # apc[a]) =>
              /\ apc[a] = "idle" /\ apc'[a] = "panic" /\ crashed'
              /\ entries' = entries /\ entriesSet' = entriesSet /\ fileBuf' = fileBuf
              /\ bowPool' = bowPool /\ bowLast' = bowLast
              /\ dataPool' = dataPool /\ dataLast' = dataLast
              /\ tar' = tar /\ file' = file /\ saveBuf' = saveBuf
              /\ wrItem' = wrItem /\ wItem' = wItem /\ returned' = returned]_vars

\* Add has panicked on a handle that was opened on a database of two records
\* and had loaded them
C14_Witness ==
    /\ mode = "read" /\ entriesSet /\ Len(entries) = 2
    /\ \E a \in Adders : apc[a] = "panic"
    /\ returned = {} /\ fileBuf = <<>>

\* C16: ReadAll on a handle made with Create panics without taking a lock and
\* without changing the state of the pipeline.  On such a handle the lock is
\* never held, and the only step a ReadAll call takes is the panic, which
\* changes neither the pipeline nor the record stream nor the read side.
C16_WriteModeReadAllPanics ==
    /\ [](mode = "write" => readAllLock = "free")
    /\ [][\A t \in Threads :
             (mode = "write" /\ call'[t] = "ReadAll" /\ pc'[t] # pc[t]) =>
                 /\ pc[t] = "idle" /\ pc'[t] = "panic" /\ crashed'
                 /\ UNCHANGED << pipeVars, codecVars, loadVars >>]_vars

\* ReadAll has panicked on a handle made with Create through which a record
\* had been written and on which an Add call was at its send
C16_Witness ==
    /\ mode = "write" /\ pc["t1"] = "panic" /\ call["t1"] = "ReadAll"
    /\ Len(written) >= 1 /\ \E a \in Adders : apc[a] = "send"
    /\ readAllLock = "free" /\ ~entriesSet

\* C17: a Search on a handle that is still in write mode triggers a full load
\* of the record stream and is answered from the complete record set: it does
\* not panic, and when it has returned the entries it scanned are the records
\* written so far.
C17_WriteModeSearchLoads ==
    \A t \in Threads :
        (mode = "write" /\ call[t] = "Search") =>
            /\ pc[t] # "panic"
            /\ pc[t] = "idle" => DerefAll(scan[t]) = written

\* C18: mode exclusivity.  A handle opened for reading never has state of the
\* write side (bytes in saveBuf, a closed or used channel, a worker or writer
\* goroutine, a counted worker), a handle made for writing never has state of
\* the read side (a stream under fileBuf, a held lock, loaded entries, slabs),
\* and once a constructor has returned the handle its mode does not change.
C18_ModeExclusive ==
    /\ [](mode = "read" =>
            /\ saveBuf = <<>> /\ wrpc = "none" /\ wrItem = NoEntry
            /\ \A w \in Workers : wpc[w] = "none" /\ wItem[w] = NoEntry
            /\ ~entryChanClosed /\ ~writingClosed /\ wg = 0
            /\ \A a \in Adders : apc[a] # "send"
            /\ cpc \in {"idle", "closed"})
    /\ [](mode = "write" =>
            /\ fileBuf = <<>> /\ ~entriesSet /\ entries = <<>>
            /\ readAllLock = "free" /\ decodes = 0
            /\ bowPool = <<>> /\ dataPool = <<>> /\ bowLast = 0 /\ dataLast = 0
            /\ wrpc # "none")
    /\ [][mode # "none" => mode' = mode]_vars

\* Close has returned on a handle that was opened for reading and had loaded
\* two records
C18_Witness ==
    /\ mode = "read" /\ cpc = "closed"
    /\ entriesSet /\ Len(entries) = 2 /\ ReadAllDone("t1")

\* C19: Create on a path that exists returns an error and nothing else.  From
\* a state with no handle and something at the path no step yields a handle
\* for writing, starts a goroutine or changes what is at the path, and where
\* Create has returned AlreadyExists there is no handle and no goroutine.
C19_CreateExisting ==
    /\ [](ctorRet = "AlreadyExists" =>
            /\ mode = "none" /\ wrpc = "none" /\ \A w \in Workers : wpc[w] = "none"
            /\ pathExists /\ saveBuf = <<>>)
    /\ [][(mode = "none" /\ pathExists) =>
             /\ mode' # "write" /\ pathExists'
             /\ ctorRet' # "nil" \/ mode' = "read"
             /\ tar' = tar /\ file' = file /\ written' = written
             /\ wrpc' = wrpc /\ wpc' = wpc]_vars

\* Create has returned AlreadyExists on a path that holds a finished archive
\* of two records
C19_Witness ==
    /\ ctorRet = "AlreadyExists" /\ variant = "archive"
    /\ Len(tar) = 3 /\ Len(written) = 2 /\ tar[3].size > 0

\* C20: archive member order.  While a handle made with Create exists the
\* archive begins with the directory entry and the library member, which are
\* there before any record is accepted; the record-stream member is there
\* exactly when Close has returned, after the writer goroutine has finished;
\* it is the third and last member, it holds the items of every record
\* written, its header declares their number of bytes, and once it is
\* written the archive does not change.
C20_MemberOrder ==
    /\ []((variant = "archive" /\ mode = "write") =>
            /\ Len(tar) \in {2, 3}
            /\ tar[1] = DirMember /\ tar[2] = LibMember
            /\ (Len(tar) = 3) <=> (cpc = "closed")
            /\ Len(tar) = 3 =>
                 /\ tar[3].name = "bow.db"
                 /\ wrpc = "exited"
                 /\ tar[3].body = writeAll(<<>>, written)
                 /\ tar[3].size = Len(tar[3].body))
    /\ [][(variant = "archive" /\ mode = "write" /\ Len(tar) = 3) => tar' = tar]_vars

\* Close has finished an archive through which both goroutines added records
C20_Witness ==
    /\ variant = "archive" /\ mode = "write" /\ cpc = "closed"
    /\ Len(tar) = 3 /\ Len(written) >= 2 /\ tar[3].size = Len(saveBuf)
    /\ \A a \in Adders : nadds[a] >= 1 /\ apc[a] = "idle"


\* the records of written whose db.write returned nil
RECURSIVE Succeeded(_, _)
Succeeded(recs, errs) ==
    IF recs = <<>> THEN <<>>
    ELSE (IF Head(errs) THEN <<>> ELSE << Head(recs) >>) \o Succeeded(Tail(recs), Tail(errs))

\* C21: when Close has returned, the record stream is exactly the records
\* whose write succeeded, each intact: a record whose write failed has left
\* no partial item, and the writer went on to write the later ones.
C21_FailedRecordDropped ==
    (cpc = "closed" /\ variant = "pool") =>
        file = writeAllDense(<<>>, Succeeded(written, wrErrs))

\* C21, the part that holds: the writer goes on consuming after a failure, so
\* when Close has returned every record of an Add that returned before it has
\* been handed to db.write
C21_WriterKeepsConsuming ==
    cpc = "closed" => /\ wrpc = "exited"
                       /\ Len(written) = Len(wrErrs)
                       /\ Len(written) >= Cardinality(returnedBeforeClose)


\* C22: every record ReadAll returns has a vector of exactly Lib.Size()
\* entries, however many pairs its item of the record stream holds.
C22_VectorLength ==
    ReadAllDone("t1") =>
        \A i \in 1..Len(ret["t1"].list) : Len(Deref(ret["t1"].list[i]).Bow) = LibSize

\* ReadAll has returned records whose items of the stream hold fewer pairs
\* than the library has fragments, one of them none at all
C22_Witness ==
    /\ ReadAllDone("t1") /\ Len(ret["t1"].list) = MaxRecords
    /\ \E i \in 1..Len(written) : SparsePairs(written[i].Bow, 0) = <<>>
    /\ \E i \in 1..Len(written) : Len(SparsePairs(written[i].Bow, 0)) = 6


\* the tree of a Search that runs alone over the entries es
RECURSIVE ScanAlone(_, _, _, _)
ScanAlone(opts, q, es, tr) ==
    IF es = <<>> THEN tr
    ELSE LET dist == Distance(opts, q, ViewOf(bowPool, Head(es).Bow))
             ins  == bstInsert(tr, Head(es), dist)
         IN  IF OutsideWindow(opts, dist) \/ (AtLimit(opts, tr) /\ NotBetter(opts, tr, dist))
                 THEN ScanAlone(opts, q, Tail(es), tr)
                 ELSE ScanAlone(opts, q, Tail(es),
                                IF MustEvict(opts, ins) THEN EvictWorst(opts, ins) ELSE ins)

\* the list that Search returns when it runs alone
ResultsAlone(opts, q) ==
    LET nodes == EmitOrder(opts, ScanAlone(opts, q, entries, <<>>))
    IN  [i \in 1..Len(nodes) |-> newSearchResult(q, nodes[i].Bowed)]

\* C23: on a loaded handle no step of a Search changes db.entries, the pools
\* or the lock, and every Search that returns, whatever the other goroutine's
\* Search did meanwhile, returns the list the same call returns alone.
C23_SharedSearch ==
    /\ [][loadVars' = loadVars]_vars
    /\ [](\A t \in Threads : SearchDone(t) => results[t] = ResultsAlone(sOpts[t], sQuery[t]))

\* one Search has returned hits while the other, with other options, is in
\* the middle of its scan with a hit in its tree
C23_Witness ==
    /\ SearchDone("t1") /\ Len(results["t1"]) = MaxLoad
    /\ pc["t2"] = "inserted" /\ scanIdx["t2"] >= 1 /\ bstSize(tree["t2"]) = 2
    /\ sOpts["t1"] # sOpts["t2"]


\* the vector has zero magnitude
IsZero(v) == \A k \in 1..Len(v) : v[k] = 0

\* the loaded entry i is in the list Search returned to t
Returned(t, i) == \E k \in 1..Len(results[t]) : results[t][k].Bowed.Id = entries[i].Id

\* C24: when the query or the vector of an entry has zero magnitude, the
\* cosine distance of the two is exactly 1.0; a cosine search without limit
\* whose window holds 1.0 returns the entry, one with Max = 0.35 (SearchClose)
\* does not, and a result of such a pair carries the cosine distance 1.0.
C24_ZeroMagnitude ==
    SearchDone("t1") =>
        /\ \A i \in 1..Len(entries) :
              (IsZero(sQuery["t1"]) \/ IsZero(ViewOf(bowPool, entries[i].Bow))) =>
                  /\ Cosine(sQuery["t1"], ViewOf(bowPool, entries[i].Bow)) = Scale
                  /\ sOpts["t1"].SortBy = SortByCosine =>
                        /\ (sOpts["t1"].Limit < 0 /\ sOpts["t1"].Min <= Scale
                              /\ sOpts["t1"].Max >= Scale) => Returned("t1", i)
                        /\ sOpts["t1"].Max = (35 * Scale) \div 100 => ~Returned("t1", i)
        /\ \A k \in 1..Len(results["t1"]) :
              (IsZero(sQuery["t1"]) \/ IsZero(ViewOf(bowPool, results["t1"][k].Bowed.Bow))) =>
                  results["t1"][k].Cosine = Scale

\* a cosine search with Max = 0.35 has returned the entry equal to the query
\* and left out an all-zero entry scanned before it
C24_Witness ==
    /\ SearchDone("t1") /\ sOpts["t1"].SortBy = SortByCosine
    /\ sOpts["t1"].Max = (35 * Scale) \div 100 /\ sOpts["t1"].Limit < 0
    /\ ~IsZero(sQuery["t1"])
    /\ Len(entries) >= 2 /\ IsZero(ViewOf(bowPool, entries[1].Bow))
    /\ ~Returned("t1", 1) /\ Returned("t1", 2)


\* C25: a Search whose SortBy is neither SortByEuclid nor SortByCosine never
\* returns a list, whatever the database holds.
C25_UnknownSortByPanics ==
    \A t \in Threads : (call[t] = "Search" /\ ~KnownSortBy(sOpts[t])) => ~SearchDone(t)

\* C25, the part that holds: on a database with at least one record such a
\* Search never returns, and its first turn of the scan panics
C25_UnknownSortByPanicsNonEmpty ==
    \A t \in Threads :
        (call[t] = "Search" /\ ~KnownSortBy(sOpts[t]) /\ entries # <<>>) =>
            /\ ~SearchDone(t)
            /\ pc[t] \in {"nilcheck", "range", "scan", "panic"}
            /\ scanIdx[t] = 0 /\ tree[t] = <<>>


\* one [index, value] pair for every index from from on whose entry is not
\* zero, in increasing index order
RECURSIVE NonzeroPairs(_, _)
NonzeroPairs(freqs, from) ==
    IF from >= LibSize THEN <<>>
    ELSE (IF freqs[from + 1] # 0
             THEN Uint16Bytes(from) \o Float32bits(freqs[from + 1])
             ELSE <<>>)
         \o NonzeroPairs(freqs, from + 1)

\* the stream of records whose vector item holds the pairs of the nonzero entries
RECURSIVE NonzeroStream(_)
NonzeroStream(recs) ==
    IF recs = <<>> THEN <<>>
    ELSE LET e == Head(recs)
         IN  writeItem(writeItem(writeItem(<<>>, e.Id), e.Data), NonzeroPairs(e.Bow, 0))
             \o NonzeroStream(Tail(recs))

\* C26: the vector item DB.write emits for a record holds one [index, value]
\* pair for every nonzero entry, negative ones included, none for a zero
\* entry, in increasing index order, the index in 16 bits.
C26_SparseNonzero == mode = "write" => saveBuf = NonzeroStream(written)

\* C26, the part that holds: the same for records without negative entries
C26_SparseNonNegative ==
    (mode = "write" /\ \A i \in 1..Len(written) : \A k \in 1..LibSize : written[i].Bow[k] >= 0)
        => saveBuf = NonzeroStream(written)


\* the stream cut into records of three length-prefixed items each; a stream
\* that is not a whole number of such records ends in a tuple of four
RECURSIVE Framed(_)
Framed(buf) ==
    IF buf = <<>> THEN <<>>
    ELSE LET i1 == readItem(buf)
             i2 == readItem(i1.rest)
             i3 == readItem(i2.rest)
         IN  IF i1.err # "nil" \/ i2.err # "nil" \/ i3.err # "nil" THEN << << <<>>, <<>>, <<>>, <<>> >> >>
             ELSE << << i1.item, i2.item, i3.item >> >> \o Framed(i3.rest)

\* the three items of a record: identifier, payload, vector
ItemsOf(e) ==
    << e.Id, e.Data,
       IF variant = "archive" THEN SparsePairs(e.Bow, 0) ELSE DenseFloats(e.Bow, 0) >>

\* C27: however the Add calls of the goroutines interleave, the stream the
\* writer has made is at every moment a concatenation of whole records, one
\* for each record handed to DB.write and in that order, each being the
\* length-prefixed items identifier, payload, vector.
C27_WellFramed ==
    Framed(IF variant = "archive" THEN saveBuf ELSE file)
        = [i \in 1..Len(written) |-> ItemsOf(written[i])]

\* Close has returned on a stream of three records that the writer took
\* from the two goroutines in turn
C27_Witness ==
    /\ cpc = "closed" /\ variant = "archive" /\ Len(written) = 3
    /\ written[1].Id[1] = 1 /\ written[2].Id[1] = 2 /\ written[3].Id[1] = 1


\* C28: in the pool variant entryChan is closed only when no compute worker
\* holds a record it has still to push, so no worker sends on the closed
\* entryChan, and when Close has returned every raw object a worker received
\* has been handed to the writer, also when a worker runs its wg.Add(1) only
\* after Close has passed wg.Wait.
C28_StageOrder ==
    variant = "pool" =>
        /\ entryChanClosed => \A w \in Workers : wpc[w] # "send"
        /\ \A w \in Workers : wpc[w] # "panic"
        /\ cpc = "closed" => returned \subseteq { written[i].Id : i \in 1..Len(written) }

\* Close has returned with the records of two Adds written, and a worker that
\* started after Close passed wg.Wait is at its range over the closed intake
C28_Witness ==
    /\ variant = "pool" /\ cpc = "closed"
    /\ Cardinality(returned) >= 2 /\ Len(written) >= 2
    /\ \E w \in Workers : wpc[w] = "recv" /\ wg = 1


\* C29: in the pool variant the records of the stream are in the order in
\* which the writer goroutine received them from entryChan: every step that
\* changes the file appends the record the writer has just received, and the
\* identifiers of the stream are those of the records handed to DB.write, in
\* that order.
C29_CompletionOrder ==
    /\ [][(variant = "pool" /\ file' # file) =>
             (wrpc = "write" /\ readIds(file') = Append(readIds(file), wrItem.Id))]_vars
    /\ [](variant = "pool" => readIds(file) = [i \in 1..Len(written) |-> written[i].Id])

\* the stream holds the record of the second Add of goroutine a1 in front of
\* the record of its first Add, which had returned before the second was called
C29_Witness ==
    /\ variant = "pool" /\ NumWorkers >= 2
    /\ readIds(file) = << << 1, 2 >>, << 1, 1 >> >>


\* the identifiers of the records the archive writer has taken from
\* entryChan: those of the stream and the one it is about to write
TakenIds ==
    { readIds(saveBuf)[i] : i \in 1..Len(readIds(saveBuf)) }
        \cup (IF wrpc = "write" THEN { wrItem.Id } ELSE {})

\* C30: in the archive variant the records of one goroutine's Add calls are
\* in the stream in the order of the calls, an Add has returned only for a
\* record the writer has taken, and a goroutine is in its k-th Add only when
\* the writer has taken the records of its earlier Adds.
C30_ArchiveCallOrder ==
    variant = "archive" =>
        LET ids == readIds(saveBuf)
        IN  /\ \A i \in 1..Len(ids) : \A j \in 1..Len(ids) :
                  (i < j /\ ids[i][1] = ids[j][1]) => ids[i][2] < ids[j][2]
            /\ returned \subseteq TakenIds
            /\ \A a \in Adders : \A k \in 1..(nadds[a] - 1) : << AdderNo(a), k >> \in TakenIds

\* the stream holds the records of the two Adds of goroutine a1 in the order
\* of the calls, with a record of goroutine a2 between them
C30_Witness ==
    /\ variant = "archive" /\ cpc = "closed"
    /\ Len(readIds(saveBuf)) = 3
    /\ readIds(saveBuf)[1] = << 1, 1 >> /\ readIds(saveBuf)[2][1] = 2
    /\ readIds(saveBuf)[3] = << 1, 2 >>


(***************************************************************************)
(* Claims about a failed load (SpecTorn).                                  *)
(***************************************************************************)
\* a ReadAll call of goroutine t has returned an error
ReadAllFailed(t) == pc[t] = "idle" /\ call[t] = "ReadAll" /\ ret[t].err = "error"

\* C31: a failed load is not taken for a load.  Once a ReadAll call has
\* returned an error, no ReadAll call returns a nil error, and no Search
\* iterates the records decoded before the failure.
C31_FailureNotMemoized ==
    \A t \in Threads : \A u \in Threads :
        ReadAllFailed(t) =>
            /\ ~ReadAllDone(u)
            /\ ~(call[u] = "Search" /\ pc[u] \in {"scan", "inserted"})
            /\ ~SearchDone(u)

\* C31, what the code does: the failing call returns no records and frees
\* the lock, and db.entries keeps the records decoded before the failure
C31_FailedCallReturnsNothing ==
    \A t \in Threads :
        ReadAllFailed(t) =>
            /\ ret[t].list = <<>> /\ readAllLock # t
            /\ entriesSet /\ Len(entries) < Len(written)


\* C32: a Search with Limit 0 does not panic and returns an empty list.
C32_LimitZero ==
    \A t \in Threads :
        (call[t] = "Search" /\ sOpts[t].Limit = 0) =>
            /\ pc[t] # "panic"
            /\ SearchDone(t) => results[t] = <<>>

\* C32, the part that holds: with Limit 0 a Search that meets no entry inside
\* its window returns an empty list, and one that meets such an entry never
\* returns
C32_LimitZeroEmptyWindow ==
    \A t \in Threads :
        (call[t] = "Search" /\ sOpts[t].Limit = 0) =>
            /\ Qualifying(t) = {} => pc[t] # "panic"
            /\ SearchDone(t) => (results[t] = <<>> /\ Qualifying(t) = {})


\* the distance of the worst hit of the tree of t
WorstKept(t) ==
    IF sOpts[t].Order = OrderAsc THEN bstMaxDistance(tree[t]) ELSE bstMinDistance(tree[t])

\* the entry scanned first among the qualifying entries of the best distance
FirstBest(t) ==
    CHOOSE i \in Qualifying(t) :
        /\ Better(t, EntryDist(t, i)) = 0
        /\ \A j \in Qualifying(t) : EntryDist(t, j) = EntryDist(t, i) => i <= j

\* C33: a turn of the scan that finds the tree at Limit and a candidate at
\* the distance of the worst kept hit leaves the tree as it is; and a Search
\* with Limit 1 returns, of the entries of the best distance inside the
\* window, the one that is first in db.entries, the same in every run.
C33_TieKeepsEarlier ==
    /\ [][\A t \in Threads :
            (/\ pc[t] = "scan" /\ scanIdx[t] < Len(scan[t]) /\ KnownSortBy(sOpts[t])
             /\ bstHasNodes(tree[t]) /\ AtLimit(sOpts[t], tree[t])
             /\ scanIdx[t] + 1 \in Qualifying(t)
             /\ EntryDist(t, scanIdx[t] + 1) = WorstKept(t))
                => (tree'[t] = tree[t] /\ scanIdx'[t] = scanIdx[t] + 1)]_vars
    /\ [](\A t \in Threads :
            (SearchDone(t) /\ sOpts[t].Limit = 1 /\ Qualifying(t) # {}) =>
                /\ Len(results[t]) = 1
                /\ results[t][1].Bowed.Id = entries[FirstBest(t)].Id
                /\ results[t] = ResultsAlone(sOpts[t], sQuery[t]))

\* a Search with Limit 1 has returned the first of two records with the same
\* vector, both inside the window
C33_Witness ==
    /\ SearchDone("t1") /\ sOpts["t1"].Limit = 1
    /\ Len(entries) >= 2 /\ {1, 2} \subseteq Qualifying("t1")
    /\ ViewOf(bowPool, entries[1].Bow) = ViewOf(bowPool, entries[2].Bow)
    /\ Len(results["t1"]) = 1 /\ results["t1"][1].Bowed.Id = << 1 >>


(***************************************************************************)
(* Claims about the memory pools (SpecArena).                              *)
(***************************************************************************)
\* two views share no element
Disjoint(v, w) == v.slab = 0 \/ w.slab = 0 \/ v.slab # w.slab \/ v.hi <= w.lo \/ w.hi <= v.lo

\* the view lies inside one slab of the pool
InSlab(pool, v) ==
    v.slab = 0 \/ (v.slab \in 1..Len(pool) /\ 0 <= v.lo /\ v.lo <= v.hi /\ v.hi <= Len(pool[v.slab]))

\* C34: the views newBow and newData have handed out during a load do not
\* overlap, each lies inside one slab, and no step of the load (a later view,
\* a new slab, the decoding of a later record) changes what an earlier view holds.
C34_ViewsDisjointStable ==
    /\ [](\A i \in 1..Len(entries) :
            /\ InSlab(bowPool, entries[i].Bow) /\ InSlab(dataPool, entries[i].Data)
            /\ \A j \in 1..Len(entries) :
                  i # j => /\ Disjoint(entries[i].Bow, entries[j].Bow)
                           /\ Disjoint(entries[i].Data, entries[j].Data))
    /\ [][\A i \in 1..Len(entries) :
            /\ ViewOf(bowPool', entries[i].Bow) = ViewOf(bowPool, entries[i].Bow)
            /\ ViewOf(dataPool', entries[i].Data) = ViewOf(dataPool, entries[i].Data)]_vars

\* ReadAll has returned three records, the third of which has its vector and
\* its payload in a second slab
C34_Witness ==
    /\ ReadAllDone("t1") /\ Len(entries) = 3
    /\ entries[1].Bow.slab = 1 /\ entries[3].Bow.slab = 2
    /\ entries[1].Data.slab = 1 /\ entries[3].Data.slab = 2
    /\ Len(bowPool) = 2 /\ Len(dataPool) = 2


\* C35: the load never panics in an allocation, and every record ReadAll
\* returns has a payload view of exactly the length of its payload item and
\* a vector view of exactly Lib.Size() floats.
C35_AllocationSucceeds ==
    /\ pc["t1"] # "panic"
    /\ ReadAllDone("t1") =>
          /\ Len(entries) = Len(written)
          /\ \A i \in 1..Len(entries) :
                /\ Len(ViewOf(dataPool, entries[i].Data)) = Len(written[i].Data)
                /\ Len(ViewOf(bowPool, entries[i].Bow)) = LibSize

\* C35, the part that holds: the same for streams whose payloads are no
\* longer than a slab of the data pool
C35_AllocationUpToSlab ==
    (\A i \in 1..Len(written) : Len(written[i].Data) <= DataSlabBytes) =>
        /\ pc["t1"] # "panic"
        /\ ReadAllDone("t1") =>
              /\ Len(entries) = Len(written)
              /\ \A i \in 1..Len(entries) :
                    /\ Len(ViewOf(dataPool, entries[i].Data)) = Len(written[i].Data)
                    /\ Len(ViewOf(bowPool, entries[i].Bow)) = LibSize


\* a fresh zeroed vector with the pairs of the item stored into it
RECURSIVE RefVector(_, _)
RefVector(vec, item) ==
    IF Len(item) < 6 THEN vec
    ELSE RefVector([vec EXCEPT ![Uint16Of(SubSeq(item, 1, 2)) + 1] =
                        Float32frombits(SubSeq(item, 3, 6))], Drop(item, 6))

\* the records a decoder without pools finds in the stream: for each record a
\* payload buffer and a zeroed vector of its own
RECURSIVE RefRecords(_)
RefRecords(buf) ==
    LET i1 == readItem(buf)
        i2 == readItem(i1.rest)
        i3 == readItem(i2.rest)
    IN  IF i1.err # "nil" \/ i2.err # "nil" \/ i3.err # "nil" THEN <<>>
        ELSE << [Id |-> i1.item, Data |-> i2.item,
                 Bow |-> RefVector([k \in 1..LibSize |-> 0], i3.item)] >>
             \o RefRecords(i3.rest)

\* C36: for every well-formed stream ReadAll returns, and the records it
\* returns are those of the decoder without pools.
C36_PoolIsOptimization ==
    /\ pc["t1"] # "panic"
    /\ ReadAllDone("t1") => DerefAll(ret["t1"].list) = RefRecords(tar[3].body)

\* C36, the part that holds: the records ReadAll returns are those of the
\* decoder without pools, and it returns for every stream whose payloads are
\* no longer than a slab of the data pool
C36_PoolEqualsReference ==
    /\ ReadAllDone("t1") => DerefAll(ret["t1"].list) = RefRecords(tar[3].body)
    /\ (\A i \in 1..Len(written) : Len(written[i].Data) <= DataSlabBytes) => pc["t1"] # "panic"


\* the vector item of the first record of the stream
FirstVectorItem == readItem(readItem(readItem(tar[3].body).rest).rest).item

\* C37: when the vector item of a record is not a whole number of 6-byte
\* pairs, or holds an index that is not below Lib.Size(), ReadAll does not
\* panic: it returns an error.
C37_MalformedVectorIsError ==
    ~PairsInRange(FirstVectorItem) =>
        /\ pc["t1"] # "panic"
        /\ ReadAllReturned("t1") => ret["t1"].err = "error"

\* C37, what the code does: ReadAll never returns for such a stream, and
\* db.entries holds no record when it panics
C37_MalformedVectorPanics ==
    ~PairsInRange(FirstVectorItem) =>
        /\ ~ReadAllReturned("t1")
        /\ entries = <<>>


\* the identifiers of the records handed to DB.write
WrittenIds == { written[i].Id : i \in 1..Len(written) }

\* C38: an Add on a write-mode handle, whenever Close is called, ends in one
\* of two ways.  A call that leaves its send has either panicked or has had
\* its record taken by a goroutine of the pipeline; a record that was taken
\* is in the stream when Close commits it; and no call stays at its send
\* for ever.
C38_AddCloseRace ==
    /\ [][\A a \in Adders :
            (apc[a] = "send" /\ apc'[a] # "send") =>
                \/ apc'[a] = "panic" /\ crashed' /\ aItem[a].Id \notin returned'
                \/ /\ apc'[a] = "idle" /\ aItem[a].Id \in returned'
                   /\ \/ wrpc' = "write" /\ wrItem'.Id = aItem[a].Id
                      \/ \E w \in Workers : wpc'[w] = "send" /\ wItem'[w].Id = aItem[a].Id]_vars
    /\ [](cpc \in {"commit", "closed"} => returned \subseteq WrittenIds)
    /\ [](cpc = "closed" => WrittenIds = { readIds(RecordStream)[i] : i \in 1..Len(readIds(RecordStream)) })
    /\ \A a \in Adders : (apc[a] = "send") ~> (apc[a] # "send" \/ crashed)

\* Close was called while goroutine a1 was at the send of its second Add and
\* a2 had not added: a1 has panicked, and its first record is in the stream
C38_Witness ==
    /\ cpc # "idle" /\ apc["a1"] = "panic" /\ nadds["a1"] = 2
    /\ << 1, 1 >> \in WrittenIds /\ << 1, 2 >> \notin returned


(***************************************************************************)
(* Library claims (SpecLibrary).                                           *)
(***************************************************************************)
\* C39: every fragment of the library has the length FragSize, the fragment
\* numbers are 0..Size()-1 in insertion order, FragSize never changes once
\* the library has a fragment, and an add that returns an error changes
\* neither Fragments nor FragSize.
C39_LibraryShape ==
    /\ [](\A k \in 1..Len(Fragments) :
            Fragments[k].Len = FragSize /\ Fragments[k].FragNumber = k - 1)
    /\ [][/\ Fragments # <<>> => FragSize' = FragSize
          /\ (addRet' = "error" /\ (addRet' # addRet \/ Fragments' # Fragments))
                => (Fragments' = Fragments /\ FragSize' = FragSize)
          /\ Fragments' # Fragments =>
                (addRet' = "nil" /\ Len(Fragments') = Len(Fragments) + 1
                   /\ SubSeq(Fragments', 1, Len(Fragments)) = Fragments)]_vars

\* a library of two fragments has refused a fragment of another length
C39_Witness ==
    /\ Len(Fragments) = 2 /\ FragSize = MaxFragSize /\ addRet = "error"


\* the number of windows of the finished call whose best fragment was number i
WindowsFor(i) == Cardinality({w \in 1..Len(bowRet.best) : bowRet.best[w] = i})

\* C40: StructureBow and SequenceBow return a vector of length lib.Size()
\* whose entry i counts the windows whose best fragment is i; a window
\* answered by -1 counts nowhere and does not abort the call.
C40_BagOfWords ==
    bowRet # NoBow =>
        /\ bowRet.err = "nil"
        /\ Len(bowRet.Freqs) = Len(Fragments)
        /\ \A k \in 1..Len(Fragments) : bowRet.Freqs[k] = WindowsFor(k - 1)

\* what holds: the counting is as stated wherever the call returns, and a
\* call aborts exactly when it is StructureBow and a window was answered by -1
C40_CountsUnlessStructureSentinel ==
    bowRet # NoBow =>
        /\ (bowRet.err = "panic") <=>
              (bowRet.fn = "StructureBow" /\ \E w \in 1..Len(bowRet.best) : bowRet.best[w] < 0)
        /\ bowRet.err = "nil" =>
              /\ Len(bowRet.Freqs) = Len(Fragments)
              /\ \A k \in 1..Len(Fragments) : bowRet.Freqs[k] = WindowsFor(k - 1)
        /\ Len(bowRet.best) = NumWindows(bowRet.n)

=============================================================================
